---- MODULE Spec2Model ----
(***************************************************************************)
(* Connect-N engine of brandonaaron/connect4js: the original C algorithm   *)
(* (c4.c, version 3.7) and its JavaScript port (Connect4Game.js).          *)
(*                                                                         *)
(* A behaviour exercises one of the two engines (variable engine) on one   *)
(* board geometry.  The C search is modelled step by step (one action per  *)
(* loop iteration / call / return of c4_auto_move and evaluate), because   *)
(* its state stack is global and a poll function can observe it during a   *)
(* search.  The JS engine runs inside a worker and handles one message to  *)
(* completion, so makeMove and autoMove are single actions there.          *)
(***************************************************************************)
EXTENDS Integers, Sequences, FiniteSets, TLC

(***************************************************************************)
(* Bounds of the model.                                                    *)
(***************************************************************************)
MaxCols    == 3   \* board widths 1..MaxCols
MaxRows    == 2   \* board heights 1..MaxRows
MaxCells   == 6   \* only boards with width*height <= MaxCells
MaxConnect == 2   \* connect lengths 1..MaxConnect
MaxLevel   == 2   \* search levels 1..MaxLevel
MaxStack   == 3   \* JS: no call is issued once _stateStack is this long
MaxAutoMoves == 1 \* c4.c: c4_auto_move is called at most this often

(***************************************************************************)
(* Program constants.                                                      *)
(***************************************************************************)
C4_NONE      == 2
C4_MAX_LEVEL == 20
INT_MAX      == 2147483647
\* Stands for Number.MAX_VALUE (about 1.8e308).  Only its order relative to
\* score differences and the absorption in FloatSub matter.
MAX_VALUE    == 2000000000
JS_none      == -1

Geometries ==
    { g \in (1..MaxCols) \X (1..MaxRows) \X (1..MaxConnect) :
          g[1] * g[2] <= MaxCells }

Players == {0, 1}
Levels  == 1..MaxLevel

VARIABLES
    engine,            \* "c4.c" or "Connect4Game.js": the engine in use
    \* ---- c4.c static globals ----
    size_x, size_y, num_to_connect,
    win_places,
    map,               \* map[x][y]: sequence of win place indices
    magic_win_number,
    game_in_progress, move_in_progress,
    state_stack,       \* [0..C4_MAX_LEVEL -> Game_state]
    depth,
    states_allocated,
    drop_order,        \* drop_order[i], i in 0..size_x-1
    poll_function,     \* TRUE when a poll function is installed (not NULL)
    poll_interval, next_poll,
    clock,             \* the value clock() returns: processor time used so far
    polled,            \* the clock at the last two calls of the poll function
                       \* and the stack depth at the last one
    aborted,           \* an assertion failed: abort() has ended the program
    \* ---- c4.c control state of a running c4_auto_move ----
    am,                \* locals of c4_auto_move
    ev,                \* stack of evaluate() activations, innermost last
    \* ---- Connect4Game.js ----
    connect4,          \* the worker's Connect4Game instance
    \* ---- observation of calls ----
    ret,               \* the last public call, with its result once returned
    pre,               \* the current state and the stack depth at entry of
                       \* that call
    auto_moves,        \* c4.c: number of c4_auto_move calls so far
    \* ---- Connect4.js: the facade in the page, and its worker ----
    facade,            \* the Connect4 instance
    to_worker,         \* messages posted to the worker, not yet handled
    to_facade,         \* messages posted by the worker, not yet handled
    published,         \* number of events published so far, by event
    api                \* the last call of makeMove / autoMove of the facade

cvars == <<size_x, size_y, num_to_connect, win_places, map, magic_win_number,
           game_in_progress, move_in_progress, state_stack, depth,
           states_allocated, drop_order, am, ev>>
pvars == <<poll_function, poll_interval, next_poll, clock, polled>>
fvars == <<facade, to_worker, to_facade, published, api>>
vars  == <<engine, cvars, pvars, aborted, connect4, ret, pre, auto_moves,
           fvars>>

(***************************************************************************)
(* Win places: the four enumeration passes shared by c4_new_game and       *)
(* _setupMap.  A line is the sequence of its cells <<x, y>>.               *)
(***************************************************************************)
Span(a, n) == IF a - n + 1 > 0 THEN a - n + 1 ELSE 0

HorizontalWins(w, h, n) ==
    [idx \in 1..(h * Span(w, n)) |->
        LET i == (idx - 1) \div Span(w, n)
            j == (idx - 1) % Span(w, n)
        IN  [k \in 1..n |-> <<j + (k - 1), i>>]]

VerticalWins(w, h, n) ==
    [idx \in 1..(w * Span(h, n)) |->
        LET i == (idx - 1) \div Span(h, n)
            j == (idx - 1) % Span(h, n)
        IN  [k \in 1..n |-> <<i, j + (k - 1)>>]]

ForwardDiagonalWins(w, h, n) ==
    [idx \in 1..(Span(h, n) * Span(w, n)) |->
        LET i == (idx - 1) \div Span(w, n)
            j == (idx - 1) % Span(w, n)
        IN  [k \in 1..n |-> <<j + (k - 1), i + (k - 1)>>]]

BackwardDiagonalWins(w, h, n) ==
    [idx \in 1..(Span(h, n) * Span(w, n)) |->
        LET i == (idx - 1) \div Span(w, n)
            j == (w - 1) - ((idx - 1) % Span(w, n))
        IN  [k \in 1..n |-> <<j - (k - 1), i + (k - 1)>>]]

\* Mutant of WinLines: the vertical pass runs before the horizontal one.
WinLines_vertical_first(w, h, n) ==
    VerticalWins(w, h, n) \o HorizontalWins(w, h, n)
        \o ForwardDiagonalWins(w, h, n) \o BackwardDiagonalWins(w, h, n)

\* All lines in id order: the line with win_index id is WinLines(..)[id+1].
WinLines(w, h, n) ==
    HorizontalWins(w, h, n) \o VerticalWins(w, h, n)
        \o ForwardDiagonalWins(w, h, n) \o BackwardDiagonalWins(w, h, n)

\* map[x][y] after the four passes: ids are appended in increasing order.
BuildMap(w, h, n) ==
    LET lines == WinLines(w, h, n)
        ids   == [q \in 1..Len(lines) |-> q - 1]
    IN  [x \in 0..(w - 1) |-> [y \in 0..(h - 1) |->
            SelectSeq(ids, LAMBDA id :
                \E k \in 1..n : lines[id + 1][k] = <<x, y>>)]]

\* Mutant of num_of_win_places: a board with one side shorter than n is
\* counted like a board with both sides shorter.
num_of_win_places_no_short_side(x, y, n) ==
    IF x < n \/ y < n THEN 0
    ELSE 4*x*y - 3*x*n - 3*y*n + 3*x + 3*y - 4*n + 2*n*n + 2

num_of_win_places(x, y, n) ==
    IF x < n /\ y < n THEN 0
    ELSE IF x < n THEN x * ((y - n) + 1)
    ELSE IF y < n THEN y * ((x - n) + 1)
    ELSE 4*x*y - 3*x*n - 3*y*n + 3*x + 3*y - 4*n + 2*n*n + 2

\* 1 << n
RECURSIVE ShiftLeft1(_)
ShiftLeft1(n) == IF n = 0 THEN 1 ELSE 2 * ShiftLeft1(n - 1)

\* drop_order as c4_new_game fills it (integer division).
RECURSIVE BuildDropOrder(_, _, _)
BuildDropOrder(w, i, column) ==
    IF i > w THEN <<>>
    ELSE <<column>> \o BuildDropOrder(w, i + 1,
                           column + (IF i % 2 = 1 THEN i ELSE -i))

(***************************************************************************)
(* c4.c: operations on the current state.                                  *)
(***************************************************************************)
other(x) == IF x = 0 THEN 1 ELSE 0
real_player(x) == x % 2

current_state == state_stack[depth]

\* A Game_state whose board and score arrays are allocated and initial.
NewGameState(w, h, wp) ==
    [ board         |-> [x \in 0..(w - 1) |-> [y \in 0..(h - 1) |-> C4_NONE]],
      score_array   |-> [p \in 0..1 |-> [l \in 0..(wp - 1) |-> 1]],
      score         |-> [p \in 0..1 |-> wp],
      winner        |-> C4_NONE,
      num_of_pieces |-> 0 ]

\* A slot of the static array state_stack that was never allocated.
UnallocatedState ==
    [ board         |-> <<>>,
      score_array   |-> <<>>,
      score         |-> [p \in 0..1 |-> 0],
      winner        |-> 0,
      num_of_pieces |-> 0 ]

goodness_of(player) ==
    current_state.score[player] - current_state.score[other(player)]

\* Mutant of update_win_place: the opponent's entry is not zeroed.
update_win_place_keep_other(score_array, player, win_index) ==
    [score_array EXCEPT ![player][win_index] = 2 * @]

\* Mutant of update_win_place: the player's entry is incremented, not doubled.
update_win_place_increment(score_array, player, win_index) ==
    [score_array EXCEPT ![player][win_index] = @ + 1,
                        ![other(player)][win_index] = 0]

\* update_score, loop body: the two assignments to the score arrays.
update_win_place(score_array, player, win_index) ==
    [score_array EXCEPT ![player][win_index] = 2 * @,
                        ![other(player)][win_index] = 0]

\* Mutant of new_winner: a later completed line overwrites the winner.
new_winner_overwrite(winner, value, player) ==
    IF value = magic_win_number THEN player ELSE winner

\* Mutant of new_winner: the entry is compared with half the magic number.
new_winner_one_short(winner, value, player) ==
    IF 2 * value = magic_win_number /\ winner = C4_NONE THEN player ELSE winner

\* update_score, loop body: the winner after the entry became value.
new_winner(winner, value, player) ==
    IF value = magic_win_number /\ winner = C4_NONE THEN player ELSE winner

\* Mutant of add_differences: the opponent's score is left as it was.
add_differences_own_only(st, player, this_difference, other_difference) ==
    [st EXCEPT !.score[player] = @ + this_difference]

\* Mutant of add_differences: the signs of the two updates are exchanged.
add_differences_negated(st, player, this_difference, other_difference) ==
    [st EXCEPT !.score[player] = @ - this_difference,
               !.score[other(player)] = @ + other_difference]

\* update_score, after the loop: the two scores move by the differences.
add_differences(st, player, this_difference, other_difference) ==
    [st EXCEPT !.score[player] = @ + this_difference,
               !.score[other(player)] = @ - other_difference]

\* update_score on Game_state st (player just placed a piece at x, y).
RECURSIVE update_score_loop(_, _, _, _, _, _)
update_score_loop(st, player, wins, i, this_difference, other_difference) ==
    IF i > Len(wins)
    THEN add_differences(st, player, this_difference, other_difference)
    ELSE LET win_index == wins[i]
             sa  == update_win_place(st.score_array, player, win_index)
             st1 == [st EXCEPT
                       !.score_array = sa,
                       !.winner = new_winner(@, sa[player][win_index], player)]
         IN  update_score_loop(st1, player, wins, i + 1,
                 this_difference + st.score_array[player][win_index],
                 other_difference + st.score_array[other(player)][win_index])

\* Mutant of update_score: the lines of the bottom cell of the column are
\* updated instead of those of the landed cell.
update_score_bottom_cell(st, player, x, y) ==
    update_score_loop(st, player, map[x][0], 1, 0, 0)

update_score(st, player, x, y) ==
    update_score_loop(st, player, map[x][y], 1, 0, 0)

\* Mutant of drop_scan: the scan starts above the bottom row.
drop_scan_from_row_1(col, y) ==
    IF size_y = 1 THEN (IF col[0] # C4_NONE THEN 1 ELSE 0)
    ELSE IF col[1] # C4_NONE THEN size_y
    ELSE 1

\* The while loop of drop_piece: first row of the column that is C4_NONE,
\* or size_y.
RECURSIVE drop_scan(_, _)
drop_scan(col, y) ==
    IF col[y] # C4_NONE
    THEN IF y + 1 < size_y THEN drop_scan(col, y + 1) ELSE y + 1
    ELSE y

\* Mutant of drop_piece: the piece count is incremented before the test for
\* a full column.
drop_piece_count_first(st, player, column) ==
    LET y == drop_scan(st.board[column], 0)
    IN  IF y = size_y
        THEN [st |-> [st EXCEPT !.num_of_pieces = @ + 1], row |-> -1]
        ELSE [st  |-> update_score(
                        [st EXCEPT !.board[column][y] = player,
                                   !.num_of_pieces = @ + 1],
                        player, column, y),
              row |-> y]

\* drop_piece on Game_state st: the new state and the returned row (or -1).
drop_piece(st, player, column) ==
    LET y == drop_scan(st.board[column], 0)
    IN  IF y = size_y
        THEN [st |-> st, row |-> -1]
        ELSE [st  |-> update_score(
                        [st EXCEPT !.board[column][y] = player,
                                   !.num_of_pieces = @ + 1],
                        player, column, y),
              row |-> y]

(***************************************************************************)
(* Connect4Game.js: operations on a state of _stateStack.                  *)
(***************************************************************************)
_other(player) == IF player = 0 THEN 1 ELSE 0

_findWinningPlaces(x, y, n) ==
    IF x < n /\ y < n THEN 0
    ELSE IF x < n THEN x * ((y - n) + 1)
    ELSE IF y < n THEN y * ((x - n) + 1)
    ELSE 4*x*y - 3*x*n - 3*y*n + 3*x + 3*y - 4*n + 2*n*n + 2

_setupMap(cols, rows, connect) == BuildMap(cols, rows, connect)

\* _dropOrder holds JavaScript numbers: (cols-1)/2 is not an integer when
\* cols is even.  An entry is stored as twice its value.
RECURSIVE SetupDropOrderFrom(_, _, _)
SetupDropOrderFrom(cols, i, column2) ==
    IF i > cols THEN <<>>
    ELSE <<column2>> \o SetupDropOrderFrom(cols, i + 1,
                            column2 + 2 * (IF i % 2 = 1 THEN i ELSE -i))

_setupDropOrder(cols) == SetupDropOrderFrom(cols, 1, cols - 1)

\* board[c] for a drop-order entry c (stored doubled) is an array only when
\* c is an integer inside the board; otherwise it is undefined.
IsArrayIndex(column2, cols) ==
    column2 % 2 = 0 /\ column2 \div 2 >= 0 /\ column2 \div 2 < cols

currentState == connect4._stateStack[Len(connect4._stateStack)]

\* Mutant of isTieOf: a full board is a tie whether or not there is a winner.
isTieOf_ignoring_winner(st) ==
    st.numberOfPieces >= connect4._cols * connect4._rows

isTieOf(st) ==
    st.winner = JS_none /\ st.numberOfPieces >= connect4._cols * connect4._rows

RECURSIVE _updateScore_loop(_, _, _, _, _, _)
_updateScore_loop(st, player, wins, i, thisDiff, otherDiff) ==
    IF i > Len(wins)
    THEN LET st1 == [st EXCEPT !.score[player] = @ + thisDiff,
                               !.score[_other(player)] = @ - otherDiff]
         IN  IF st1.winner > -1 \/ isTieOf(st1)
             THEN [st1 EXCEPT !.gameOver = TRUE, !.tie = isTieOf(st1)]
             ELSE st1
    ELSE LET winIndex == wins[i]
             doubled  == 2 * st.stats[player][winIndex]
             st1 == [st EXCEPT
                       !.stats[player][winIndex] = doubled,
                       !.stats[_other(player)][winIndex] = 0,
                       !.winner = IF doubled = connect4._magicWinningNumber
                                     /\ st.winner = JS_none
                                  THEN player ELSE @]
         IN  _updateScore_loop(st1, player, wins, i + 1,
                 thisDiff + st.stats[player][winIndex],
                 otherDiff + st.stats[_other(player)][winIndex])

\* Mutant of _updateScore: the flags gameOver and tie are left as they were.
_updateScore_flags_kept(st, player, column, row) ==
    [_updateScore_loop(st, player, st.map[column][row], 1, 0, 0)
        EXCEPT !.gameOver = st.gameOver, !.tie = st.tie]

_updateScore(st, player, column, row) ==
    _updateScore_loop(st, player, st.map[column][row], 1, 0, 0)

RECURSIVE _dropPiece_scan(_, _)
_dropPiece_scan(col, row) ==
    IF col[row] # JS_none
    THEN IF row + 1 < connect4._rows THEN _dropPiece_scan(col, row + 1)
         ELSE row + 1
    ELSE row

\* _dropPiece on state st for an integer column inside the board.
_dropPiece(st, player, column) ==
    LET row == _dropPiece_scan(st.board[column], 0)
    IN  IF row = connect4._rows
        THEN [st |-> st, row |-> -1]
        ELSE [st  |-> _updateScore(
                        [st EXCEPT !.board[column][row] = player,
                                   !.numberOfPieces = @ + 1],
                        player, column, row),
              row |-> row]

\* Mutant of winningCoords: the map entry is compared with >= instead of =.
winningCoords_at_least(st) ==
    LET stats  == st.stats[st.winner]
        winPos == CHOOSE p \in DOMAIN stats :
                      /\ stats[p] = connect4._magicWinningNumber
                      /\ \A q \in DOMAIN stats :
                            q < p => stats[q] # connect4._magicWinningNumber
        cells  == [q \in 1..(connect4._cols * connect4._rows) |->
                      <<(q - 1) \div connect4._rows, (q - 1) % connect4._rows>>]
    IN  SelectSeq(cells, LAMBDA c :
            \E i \in 1..Len(st.map[c[1]][c[2]]) : st.map[c[1]][c[2]][i] >= winPos)

\* winningCoords() on state st, called only when st.winner is a player.
winningCoords(st) ==
    LET stats  == st.stats[st.winner]
        winPos == CHOOSE p \in DOMAIN stats :
                      /\ stats[p] = connect4._magicWinningNumber
                      /\ \A q \in DOMAIN stats :
                            q < p => stats[q] # connect4._magicWinningNumber
        cells  == [q \in 1..(connect4._cols * connect4._rows) |->
                      <<(q - 1) \div connect4._rows, (q - 1) % connect4._rows>>]
    IN  SelectSeq(cells, LAMBDA c :
            \E i \in 1..Len(st.map[c[1]][c[2]]) : st.map[c[1]][c[2]][i] = winPos)

(***************************************************************************)
(* Initial states: a game has just been created on one engine.             *)
(***************************************************************************)
NoAutoMove ==
    [ active |-> FALSE, pc |-> "idle", player |-> 0, level |-> 0, i |-> 0,
      best_column |-> -1, goodness |-> 0, best_worst |-> 0,
      num_of_equal |-> 0, current_column |-> 0 ]

NoCall == [ op |-> "new", player |-> 0, column |-> 0, level |-> 0,
            ok |-> TRUE, thrown |-> "", out_column |-> 0, out_row |-> 0 ]

\* c4.c after c4_new_game(width, height, num).
c4_new_game(width, height, num) ==
    /\ size_x = width
    /\ size_y = height
    /\ num_to_connect = num
    /\ magic_win_number = ShiftLeft1(num)
    /\ win_places = num_of_win_places(width, height, num)
    /\ depth = 0
    /\ state_stack =
         [d \in 0..C4_MAX_LEVEL |->
            IF d = 0
            THEN NewGameState(width, height,
                              num_of_win_places(width, height, num))
            ELSE UnallocatedState]
    /\ states_allocated = 1
    /\ map = BuildMap(width, height, num)
    /\ drop_order = [i \in 0..(width - 1) |->
                        BuildDropOrder(width, 1, (width - 1) \div 2)[i + 1]]
    /\ game_in_progress = TRUE
    /\ move_in_progress = FALSE
    /\ am = NoAutoMove
    /\ ev = <<>>

\* c4.c before any call: the zero-initialised statics.
c4_static_init ==
    /\ size_x = 0 /\ size_y = 0 /\ num_to_connect = 0
    /\ magic_win_number = 0 /\ win_places = 0
    /\ depth = 0
    /\ state_stack = [d \in 0..C4_MAX_LEVEL |-> UnallocatedState]
    /\ states_allocated = 0
    /\ map = <<>>
    /\ drop_order = <<>>
    /\ game_in_progress = FALSE
    /\ move_in_progress = FALSE
    /\ am = NoAutoMove
    /\ ev = <<>>

\* new Connect4Game({cols, rows, connect}).
Connect4Game(cols, rows, connect) ==
    LET wp == _findWinningPlaces(cols, rows, connect)
    IN  [ _cols   |-> cols,
          _rows   |-> rows,
          _connect |-> connect,
          _magicWinningNumber |-> ShiftLeft1(connect),
          _winningPlaces |-> wp,
          _stateStack |-> << [
              numberOfPieces |-> 0,
              winner |-> JS_none,
              tie |-> FALSE,
              gameOver |-> FALSE,
              board |-> [x \in 0..(cols - 1) |-> [y \in 0..(rows - 1) |-> JS_none]],
              stats |-> [p \in 0..1 |-> [l \in 0..(wp - 1) |-> 1]],
              map |-> _setupMap(cols, rows, connect),
              winningCoords |-> <<>>,
              score |-> [p \in 0..1 |-> wp] ] >>,
          _dropOrder |-> _setupDropOrder(cols) ]

NoPre == [state |-> UnallocatedState, depth |-> 0]

NoPolls == [prev |-> -1, last |-> -1, depth |-> 0]

\* Connect4.js: the state properties of a new Connect4 instance.
FacadeState0 ==
    [ numberOfPieces |-> 0, winner |-> -1, tie |-> FALSE, gameOver |-> FALSE,
      board |-> <<>>, stats |-> << <<>>, <<>> >>, map |-> <<>>,
      winningCoords |-> <<>>,
      score |-> <<>> ]

\* The events published so far, counted, those of the last method or
\* handler that published one, in the order of its _publish calls, and the
\* handlers these calls invoked, each with its event.
NoEvents ==
    [gamestart |-> 0, movestart |-> 0, moveend |-> 0, gameend |-> 0,
     debug |-> 0, last |-> <<>>, invoked |-> <<>>]

\* The last call of the page and the error it threw; unsubscribed holds the
\* pairs of event and handler the page has unsubscribed, sliced the array
\* the last unsubscribe got from slice.
NoApi == [op |-> "new", thrown |-> "", unsubscribed |-> {}, sliced |-> <<>>]

\* The fields of a Connect4 instance as the constructor sets them:
\* _subscribers is {}, an object without properties.  arrays counts the
\* arrays [handler, context] created so far: two arrays are the same object
\* only if they were created by the same expression evaluation.
NewFacade ==
    [ moveInProgress |-> FALSE, columns |-> 0, rows |-> 0, connect |-> 0,
      state |-> FacadeState0, _subscribers |-> <<>>, arrays |-> 0 ]

\* subscribe(event, handler): the array [handler, context] is pushed on the
\* list of the event, which is created if there is none.  The context is
\* always left undefined.
subscribe(f, event, handler) ==
    [f EXCEPT
       !._subscribers =
           [e \in DOMAIN f._subscribers \cup {event} |->
               IF e # event THEN f._subscribers[e]
               ELSE Append(IF event \in DOMAIN f._subscribers
                           THEN f._subscribers[event] ELSE <<>>,
                           [array |-> f.arrays, handler |-> handler])],
       !.arrays = @ + 1]

\* Array.prototype.indexOf: the first index (from 0) at which list holds the
\* array itself, or -1.
indexOf(list, array) ==
    IF \E i \in 1..Len(list) : list[i].array = array
    THEN (CHOOSE i \in 1..Len(list) :
              /\ list[i].array = array
              /\ \A j \in 1..(i - 1) : list[j].array # array) - 1
    ELSE -1

\* Array.prototype.slice(begin, end): a new array with the elements from
\* begin (counted from the end if negative) up to end; list is not changed.
slice(list, begin, end) ==
    SubSeq(list,
           (IF begin < 0
            THEN (IF Len(list) + begin < 0 THEN 0 ELSE Len(list) + begin)
            ELSE begin) + 1,
           IF end > Len(list) THEN Len(list) ELSE end)

\* unsubscribe(event, handler) when the event has a list: indexOf is given
\* a new array [handler, context], and the array slice returns is dropped.
unsubscribe(f, event, handler) == [f EXCEPT !.arrays = @ + 1]

\* _publish(event) on instance f: the handlers invoked, in order.
_publish(f, event) ==
    IF event \in DOMAIN f._subscribers
    THEN [i \in 1..Len(f._subscribers[event]) |->
             <<event, f._subscribers[event][i].handler>>]
    ELSE <<>>

\* No page uses the facade: the engine is called directly.
NoFacade ==
    /\ facade = NewFacade
    /\ to_worker = <<>>
    /\ to_facade = <<>>
    /\ published = NoEvents
    /\ api = NoApi

\* The statics of the poll mechanism before any call of c4_poll, at the start
\* of the program.
poll_static_init ==
    /\ poll_function = FALSE
    /\ poll_interval = 0
    /\ next_poll = 0
    /\ clock = 0
    /\ polled = NoPolls
    /\ aborted = FALSE

NoGame == [ _cols |-> 0, _rows |-> 0, _connect |-> 0, _magicWinningNumber |-> 0,
            _winningPlaces |-> 0, _stateStack |-> <<>>, _dropOrder |-> <<>> ]

Init ==
    \E g \in Geometries :
        /\ ret = NoCall
        /\ pre = NoPre
        /\ auto_moves = 0
        /\ poll_static_init
        /\ NoFacade
        /\ \/ /\ engine = "c4.c"
              /\ c4_new_game(g[1], g[2], g[3])
              /\ connect4 = NoGame
           \/ /\ engine = "Connect4Game.js"
              /\ c4_static_init
              /\ connect4 = Connect4Game(g[1], g[2], g[3])

(***************************************************************************)
(* c4.c: c4_make_move.                                                     *)
(***************************************************************************)
\* The front end can call a function of c4.c: the program runs and the
\* previous call has returned.
CRunning == engine = "c4.c" /\ ~aborted /\ ~am.active

AtRest == CRunning /\ game_in_progress /\ ~move_in_progress

\* A failed assert(): abort() ends the program; nothing else changes.
AssertionFailed(op) ==
    /\ aborted' = TRUE
    /\ ret' = [op |-> op, player |-> 0, column |-> 0, level |-> 0,
               ok |-> FALSE, thrown |-> "Assertion failed",
               out_column |-> 0, out_row |-> 0]
    /\ UNCHANGED <<fvars, engine, cvars, pvars, connect4, pre, auto_moves>>

c4_make_move(player, column) ==
    /\ CRunning
    /\ IF ~game_in_progress \/ move_in_progress
       THEN AssertionFailed("make_move")
       ELSE /\ pre' = [state |-> current_state, depth |-> depth]
            /\ IF column >= size_x \/ column < 0
               THEN /\ ret' = [op |-> "make_move", player |-> player, column |-> column,
                               level |-> 0, ok |-> FALSE, thrown |-> "",
                               out_column |-> column, out_row |-> -1]
                    /\ UNCHANGED state_stack
               ELSE LET d == drop_piece(current_state, real_player(player), column)
                    IN  /\ state_stack' = [state_stack EXCEPT ![depth] = d.st]
                        /\ ret' = [op |-> "make_move", player |-> player,
                                   column |-> column, level |-> 0,
                                   ok |-> (d.row >= 0), thrown |-> "",
                                   out_column |-> column, out_row |-> d.row]
            /\ UNCHANGED <<fvars, engine, size_x, size_y, num_to_connect, win_places, map,
                           magic_win_number, game_in_progress, move_in_progress,
                           depth, states_allocated, drop_order, am, ev, connect4,
                           auto_moves, pvars, aborted>>

(***************************************************************************)
(* Connect4Game.js: makeMove.                                              *)
(***************************************************************************)
JSReady == engine = "Connect4Game.js" /\ Len(connect4._stateStack) < MaxStack

\* Mutant of makeMoveOn: a column outside the board is moved to the nearest
\* column instead of being rejected.
makeMoveOn_clamped(g, player, column) ==
    LET top == Len(g._stateStack)
        cur == g._stateStack[top]
        c   == IF column < 0 THEN 0
               ELSE IF column >= g._cols THEN g._cols - 1 ELSE column
        d   == _dropPiece(cur, player, c)
        st  == IF d.st.gameOver /\ ~d.st.tie
               THEN [d.st EXCEPT !.winningCoords = winningCoords(d.st)]
               ELSE d.st
    IN  [g |-> [g EXCEPT !._stateStack[top] = st],
         thrown |-> "", col |-> c, row |-> d.row]

\* The body of makeMove on the instance g: the instance afterwards and the
\* returned object, or the error thrown.
makeMoveOn(g, player, column) ==
    LET top == Len(g._stateStack)
        cur == g._stateStack[top]
    IN  IF column >= g._cols \/ column < 0
        THEN [g |-> g, thrown |-> "Not a valid column.", col |-> column, row |-> -1]
        ELSE LET d  == _dropPiece(cur, player, column)
                 st == IF d.st.gameOver /\ ~d.st.tie
                       THEN [d.st EXCEPT !.winningCoords = winningCoords(d.st)]
                       ELSE d.st
             IN  [g |-> [g EXCEPT !._stateStack[top] = st],
                  thrown |-> "", col |-> column, row |-> d.row]

makeMove(player, column) ==
    /\ JSReady
    /\ pre' = [state |-> currentState, depth |-> Len(connect4._stateStack)]
    /\ LET r == makeMoveOn(connect4, player, column)
       IN  /\ connect4' = r.g
           /\ ret' = [op |-> "make_move", player |-> player, column |-> column,
                      level |-> 0, ok |-> (r.thrown = "" /\ r.row >= 0),
                      thrown |-> r.thrown,
                      out_column |-> r.col, out_row |-> r.row]
    /\ UNCHANGED <<fvars, engine, cvars, auto_moves, pvars, aborted>>

(***************************************************************************)
(* c4.c: queries.                                                          *)
(***************************************************************************)
c4_is_winner(player) == current_state.winner = real_player(player)

c4_is_tie == current_state.num_of_pieces = size_x * size_y

c4_score_of_player(player) == current_state.score[real_player(player)]

\* map[i][j] holds the win place index id.
InMap(i, j, id) == \E k \in 1..Len(map[i][j]) : map[i][j][k] = id

\* c4_win_coords, called while a winner is recorded.  In each of the two
\* searches the loop over i is not left when a cell is found, so the last
\* matching cell of the first matching row is the one reported.
c4_win_coords ==
    LET winner  == current_state.winner
        sa      == current_state.score_array[winner]
        win_pos == CHOOSE p \in DOMAIN sa :
                       /\ sa[p] = magic_win_number
                       /\ \A q \in DOMAIN sa : q < p => sa[q] # magic_win_number
        rows    == { j \in 0..(size_y - 1) :
                       \E i \in 0..(size_x - 1) : InMap(i, j, win_pos) }
        j1      == CHOOSE j \in rows : \A j0 \in rows : j <= j0
        j2      == CHOOSE j \in rows : \A j0 \in rows : j >= j0
        in1     == { i \in 0..(size_x - 1) : InMap(i, j1, win_pos) }
        in2     == { i \in 0..(size_x - 1) : InMap(i, j2, win_pos) }
    IN  [ x1 |-> CHOOSE i \in in1 : \A i0 \in in1 : i >= i0, y1 |-> j1,
          x2 |-> CHOOSE i \in in2 : \A i0 \in in2 : i <= i0, y2 |-> j2 ]

(***************************************************************************)
(* Connect4Game.js: queries.                                               *)
(***************************************************************************)
isWinner(player) == currentState.winner = player

isTie == isTieOf(currentState)

scoreOfPlayer(player) == currentState.score[player]

(***************************************************************************)
(* c4.c: the state stack.                                                  *)
(***************************************************************************)
\* Mutant of push_state: the new frame is used without being allocated and
\* counted.
push_state_uncounted ==
    LET old_state == state_stack[depth]
        new_depth == depth + 1
        new_state == [state_stack[new_depth] EXCEPT
                        !.board       = old_state.board,
                        !.score_array = old_state.score_array,
                        !.score       = old_state.score,
                        !.winner      = old_state.winner]
    IN  [ state_stack      |-> [state_stack EXCEPT ![new_depth] = new_state],
          depth            |-> new_depth,
          states_allocated |-> states_allocated ]

\* push_state: the stack, depth and states_allocated afterwards.  Only
\* board, score_array, score and winner are copied into the new top.
push_state ==
    LET old_state == state_stack[depth]
        new_depth == depth + 1
        new_state == [state_stack[new_depth] EXCEPT
                        !.board       = old_state.board,
                        !.score_array = old_state.score_array,
                        !.score       = old_state.score,
                        !.winner      = old_state.winner]
    IN  [ state_stack      |-> [state_stack EXCEPT ![new_depth] = new_state],
          depth            |-> new_depth,
          states_allocated |-> IF new_depth = states_allocated
                               THEN states_allocated + 1
                               ELSE states_allocated ]

\* Mutant of PushAndDrop: the new frame shares its arrays with the old one,
\* so the drop shows in both.
PushAndDrop_shared(player, column) ==
    LET p == push_state
        d == drop_piece(p.state_stack[p.depth], player, column)
    IN  [ state_stack      |-> [p.state_stack EXCEPT ![p.depth] = d.st,
                                                     ![depth] = d.st],
          depth            |-> p.depth,
          states_allocated |-> p.states_allocated,
          row              |-> d.row,
          winner           |-> d.st.winner ]

\* push_state followed by drop_piece(player, column) on the new top.
PushAndDrop(player, column) ==
    LET p == push_state
        d == drop_piece(p.state_stack[p.depth], player, column)
    IN  [ state_stack      |-> [p.state_stack EXCEPT ![p.depth] = d.st],
          depth            |-> p.depth,
          states_allocated |-> p.states_allocated,
          row              |-> d.row,
          winner           |-> d.st.winner ]

(***************************************************************************)
(* c4.c: c4_auto_move and evaluate, one step per loop iteration.           *)
(***************************************************************************)
\* Values of rand() % 10000 tried in a tie-break.
RandValues == {0, 2499, 2500, 3333, 3334, 4999, 5000, 9999}

\* The record of an automatic move also tells whether the root loop was
\* entered (searched) and the value of best_worst / bestWorst after it (best).
Pending(player, level) ==
    [op |-> "auto_move", player |-> player, column |-> -1, level |-> level,
     ok |-> FALSE, thrown |-> "", out_column |-> -1, out_row |-> -1,
     searched |-> TRUE, best |-> 0]

CStatics == <<size_x, size_y, num_to_connect, win_places, map,
              magic_win_number, game_in_progress, drop_order>>

\* Mutant of opening_shortcut: with one piece on the board the bottom cell
\* of the centre column has to be free.
opening_shortcut_centre_free ==
    /\ current_state.num_of_pieces < 2
    /\ size_x = 7 /\ size_y = 6 /\ num_to_connect = 4
    /\ \/ current_state.num_of_pieces = 0
       \/ current_state.board[3][0] = C4_NONE

\* The test of c4_auto_move for the first move of a standard game.
opening_shortcut ==
    /\ current_state.num_of_pieces < 2
    /\ size_x = 7 /\ size_y = 6 /\ num_to_connect = 4
    /\ \/ current_state.num_of_pieces = 0
       \/ current_state.board[3][0] # C4_NONE

\* Entry of c4_auto_move: the assertions, the opening shortcut, or the start
\* of the root loop.
c4_auto_move(player, level) ==
    /\ CRunning
    /\ auto_moves < MaxAutoMoves
    /\ IF \/ ~game_in_progress \/ move_in_progress
          \/ ~(level >= 1 /\ level <= C4_MAX_LEVEL)
       THEN AssertionFailed("auto_move")
       ELSE /\ auto_moves' = auto_moves + 1
            /\ pre' = [state |-> current_state, depth |-> depth]
            /\ IF opening_shortcut
               THEN LET d == drop_piece(current_state, real_player(player), 3)
                    IN  /\ state_stack' = [state_stack EXCEPT ![depth] = d.st]
                        /\ ret' = [op |-> "auto_move",
                                   player |-> real_player(player),
                                   column |-> -1, level |-> level, ok |-> TRUE,
                                   thrown |-> "", out_column |-> 3,
                                   out_row |-> current_state.num_of_pieces,
                                   searched |-> FALSE, best |-> 0]
                        /\ UNCHANGED <<move_in_progress, am>>
               ELSE /\ move_in_progress' = TRUE
                    /\ am' = [ active |-> TRUE, pc |-> "loop",
                               player |-> real_player(player), level |-> level,
                               i |-> 0, best_column |-> -1, goodness |-> 0,
                               best_worst |-> -(INT_MAX), num_of_equal |-> 0,
                               current_column |-> 0 ]
                    /\ ret' = Pending(real_player(player), level)
                    /\ UNCHANGED state_stack
            /\ UNCHANGED <<fvars, engine, CStatics, depth, states_allocated, ev,
                           connect4, pvars, aborted>>

\* One iteration of the root loop up to the call of evaluate.
auto_move_iter ==
    /\ engine = "c4.c" /\ ~aborted /\ am.active /\ am.pc = "loop" /\ am.i < size_x
    /\ LET current_column == drop_order[am.i]
           pd == PushAndDrop(am.player, current_column)
       IN  /\ state_stack' = pd.state_stack
           /\ states_allocated' = pd.states_allocated
           /\ IF pd.row < 0
              THEN \* column full: pop_state, continue
                   /\ depth' = pd.depth - 1
                   /\ am' = [am EXCEPT !.current_column = current_column,
                                       !.i = @ + 1]
                   /\ ev' = ev
                   /\ next_poll' = next_poll
              ELSE IF pd.winner = am.player
              THEN \* this drop wins: pop_state, break
                   /\ depth' = pd.depth - 1
                   /\ am' = [am EXCEPT !.current_column = current_column,
                                       !.best_column = current_column,
                                       !.pc = "end"]
                   /\ ev' = ev
                   /\ next_poll' = next_poll
              ELSE \* next_poll = clock() + poll_interval;
                   \* goodness = evaluate(real_player, level, -INT_MAX, -best_worst)
                   /\ next_poll' = clock + poll_interval
                   /\ depth' = pd.depth
                   /\ am' = [am EXCEPT !.current_column = current_column,
                                       !.pc = "eval"]
                   /\ ev' = << [ player |-> am.player, level |-> am.level,
                                 alpha |-> -(INT_MAX), beta |-> -(am.best_worst),
                                 i |-> 0, goodness |-> 0, best |-> 0,
                                 maxab |-> 0, pc |-> "entry" ] >>
    /\ UNCHANGED <<fvars, engine, CStatics, move_in_progress, connect4, ret, pre,
                   auto_moves, poll_function, poll_interval, clock, polled,
                   aborted>>

\* The rest of an iteration of evaluate's loop once goodness is known:
\* the activation afterwards (pop_state is done by the caller of this).
EvalTail(act, goodness) ==
    LET best  == IF goodness > act.best THEN goodness ELSE act.best
        maxab == IF goodness > act.best /\ best > act.maxab
                 THEN best ELSE act.maxab
    IN  [act EXCEPT !.goodness = goodness, !.best = best, !.maxab = maxab,
                    !.pc = IF best > act.beta THEN "exit" ELSE "loop",
                    !.i  = IF best > act.beta THEN @ ELSE @ + 1]

\* Mutant of RootTail: the random decision is also made for a column that
\* is worse than the best one.
RootTail_tie_on_worse(a, goodness, r) ==
    IF goodness > a.best_worst
    THEN [a EXCEPT !.goodness = goodness, !.best_worst = goodness,
                   !.best_column = a.current_column, !.num_of_equal = 1,
                   !.pc = "loop", !.i = @ + 1]
    ELSE [a EXCEPT !.goodness = goodness, !.num_of_equal = @ + 1,
                   !.best_column = IF r * (a.num_of_equal + 1) < 10000
                                   THEN a.current_column ELSE @,
                   !.pc = "loop", !.i = @ + 1]

\* The rest of an iteration of the root loop once goodness is known; r is
\* the value of rand() % 10000 if a tie-break is made.
RootTail(a, goodness, r) ==
    IF goodness > a.best_worst
    THEN [a EXCEPT !.goodness = goodness, !.best_worst = goodness,
                   !.best_column = a.current_column, !.num_of_equal = 1,
                   !.pc = "loop", !.i = @ + 1]
    ELSE IF goodness = a.best_worst
    THEN [a EXCEPT !.goodness = goodness, !.num_of_equal = @ + 1,
                   !.best_column = IF r * (a.num_of_equal + 1) < 10000
                                   THEN a.current_column ELSE @,
                   !.pc = "loop", !.i = @ + 1]
    ELSE [a EXCEPT !.goodness = goodness, !.pc = "loop", !.i = @ + 1]

\* The innermost evaluate returns value: its caller finishes its iteration
\* (compares, pop_state, cutoff test).
Return(value) ==
    /\ depth' = depth - 1
    /\ IF Len(ev) > 1
       THEN /\ ev' = [SubSeq(ev, 1, Len(ev) - 1) EXCEPT
                        ![Len(ev) - 1] = EvalTail(ev[Len(ev) - 1], value)]
            /\ am' = am
       ELSE /\ ev' = <<>>
            /\ \E r \in RandValues : am' = RootTail(am, value, r)

\* Entry of evaluate: the base case, or the start of the loop.
eval_entry ==
    /\ engine = "c4.c" /\ ~aborted /\ ev # <<>> /\ ev[Len(ev)].pc = "entry"
    /\ IF poll_function /\ next_poll <= clock
       THEN /\ next_poll' = next_poll + poll_interval
            /\ polled' = [prev |-> polled.last, last |-> clock,
                          depth |-> depth]
       ELSE UNCHANGED <<next_poll, polled>>
    /\ LET act == ev[Len(ev)]
       IN  IF act.level = depth
           THEN Return(goodness_of(act.player))
           ELSE /\ ev' = [ev EXCEPT ![Len(ev)] =
                            [act EXCEPT !.best = -(INT_MAX),
                                        !.maxab = act.alpha,
                                        !.i = 0, !.pc = "loop"]]
                /\ UNCHANGED <<depth, am>>
    /\ UNCHANGED <<fvars, engine, CStatics, move_in_progress, state_stack,
                   states_allocated, connect4, ret, pre, auto_moves,
                   poll_function, poll_interval, clock, aborted>>

\* One iteration of evaluate's loop, up to a recursive call.
eval_iter ==
    /\ engine = "c4.c" /\ ~aborted /\ ev # <<>>
    /\ ev[Len(ev)].pc = "loop" /\ ev[Len(ev)].i < size_x
    /\ LET act == ev[Len(ev)]
           pd  == PushAndDrop(other(act.player), drop_order[act.i])
       IN  /\ state_stack' = pd.state_stack
           /\ states_allocated' = pd.states_allocated
           /\ IF pd.row < 0
              THEN /\ depth' = pd.depth - 1
                   /\ ev' = [ev EXCEPT ![Len(ev)].i = @ + 1]
              ELSE IF pd.winner = other(act.player)
              THEN /\ depth' = pd.depth - 1
                   /\ ev' = [ev EXCEPT ![Len(ev)] =
                                EvalTail(act, INT_MAX - pd.depth)]
              ELSE /\ depth' = pd.depth
                   /\ ev' = Append(ev,
                              [ player |-> other(act.player),
                                level |-> act.level,
                                alpha |-> -(act.beta), beta |-> -(act.maxab),
                                i |-> 0, goodness |-> 0, best |-> 0,
                                maxab |-> 0, pc |-> "entry" ])
    /\ UNCHANGED <<fvars, engine, CStatics, move_in_progress, am, connect4, ret, pre,
                   auto_moves, pvars, aborted>>

\* evaluate leaves its loop (all columns tried, or a cutoff) and returns.
eval_exit ==
    /\ engine = "c4.c" /\ ~aborted /\ ev # <<>>
    /\ LET act == ev[Len(ev)]
       IN  /\ \/ act.pc = "exit"
              \/ act.pc = "loop" /\ act.i >= size_x
           /\ Return(-(act.best))
    /\ UNCHANGED <<fvars, engine, CStatics, move_in_progress, state_stack,
                   states_allocated, connect4, ret, pre, auto_moves, pvars,
                   aborted>>

\* After the root loop: the piece is dropped in the column decided upon.
auto_move_finish ==
    /\ engine = "c4.c" /\ ~aborted /\ am.active
    /\ \/ am.pc = "end"
       \/ am.pc = "loop" /\ am.i >= size_x
    /\ move_in_progress' = FALSE
    /\ am' = NoAutoMove
    /\ IF am.best_column >= 0
       THEN LET d == drop_piece(current_state, am.player, am.best_column)
            IN  /\ state_stack' = [state_stack EXCEPT ![depth] = d.st]
                /\ ret' = [Pending(am.player, am.level) EXCEPT
                             !.ok = TRUE, !.out_column = am.best_column,
                             !.out_row = d.row, !.best = am.best_worst]
       ELSE /\ ret' = [Pending(am.player, am.level) EXCEPT
                             !.best = am.best_worst]
            /\ UNCHANGED state_stack
    /\ UNCHANGED <<fvars, engine, CStatics, depth, states_allocated, ev, connect4, pre,
                   auto_moves, pvars, aborted>>

(***************************************************************************)
(* c4.c: evaluate and the root loop of c4_auto_move as functions of the    *)
(* state searched from, run to completion.  st is the state at stack depth *)
(* d; no random number is drawn: the root loop collects every column that  *)
(* a draw can leave in best_column.                                        *)
(***************************************************************************)
RECURSIVE evaluate(_, _, _, _, _, _)
RECURSIVE evaluate_loop(_, _, _, _, _, _, _, _)
evaluate(st, d, player, level, alpha, beta) ==
    IF level = d
    THEN st.score[player] - st.score[other(player)]
    ELSE evaluate_loop(st, d, player, level, beta, 0, -(INT_MAX), alpha)

\* Mutant of evaluate_loop: the loop is also left when best equals beta.
evaluate_loop_cut_on_equal(st, d, player, level, beta, i, best, maxab) ==
    IF i >= size_x THEN -(best)
    ELSE
    LET dr == drop_piece(st, other(player), drop_order[i])
    IN  IF dr.row < 0
        THEN evaluate_loop(st, d, player, level, beta, i + 1, best, maxab)
        ELSE
        LET goodness == IF dr.st.winner = other(player)
                        THEN INT_MAX - (d + 1)
                        ELSE evaluate(dr.st, d + 1, other(player), level,
                                      -(beta), -(maxab))
            best1  == IF goodness > best THEN goodness ELSE best
            maxab1 == IF goodness > best /\ best1 > maxab
                      THEN best1 ELSE maxab
        IN  IF best1 >= beta THEN -(best1)
            ELSE evaluate_loop(st, d, player, level, beta, i + 1,
                               best1, maxab1)

evaluate_loop(st, d, player, level, beta, i, best, maxab) ==
    IF i >= size_x THEN -(best)
    ELSE
    LET dr == drop_piece(st, other(player), drop_order[i])
    IN  IF dr.row < 0
        THEN evaluate_loop(st, d, player, level, beta, i + 1, best, maxab)
        ELSE
        LET goodness == IF dr.st.winner = other(player)
                        THEN INT_MAX - (d + 1)
                        ELSE evaluate(dr.st, d + 1, other(player), level,
                                      -(beta), -(maxab))
            best1  == IF goodness > best THEN goodness ELSE best
            maxab1 == IF goodness > best /\ best1 > maxab
                      THEN best1 ELSE maxab
        IN  IF best1 > beta THEN -(best1)
            ELSE evaluate_loop(st, d, player, level, beta, i + 1,
                               best1, maxab1)

RECURSIVE auto_move_loop(_, _, _, _, _, _)
auto_move_loop(st, player, level, i, best_worst, best_columns) ==
    IF i >= size_x
    THEN [best_worst |-> best_worst, best_columns |-> best_columns]
    ELSE
    LET current_column == drop_order[i]
        dr == drop_piece(st, player, current_column)
    IN  IF dr.row < 0
        THEN auto_move_loop(st, player, level, i + 1, best_worst, best_columns)
        ELSE IF dr.st.winner = player
        THEN [best_worst |-> best_worst, best_columns |-> {current_column}]
        ELSE
        LET goodness == evaluate(dr.st, 1, player, level, -(INT_MAX),
                                 -(best_worst))
        IN  IF goodness > best_worst
            THEN auto_move_loop(st, player, level, i + 1, goodness,
                                {current_column})
            ELSE IF goodness = best_worst
            THEN auto_move_loop(st, player, level, i + 1, best_worst,
                                best_columns \cup {current_column})
            ELSE auto_move_loop(st, player, level, i + 1, best_worst,
                                best_columns)

(***************************************************************************)
(* c4.c: the same search with the cutoff of evaluate left out (no alpha,   *)
(* beta or maxab; the loop always runs over every column).                 *)
(***************************************************************************)
RECURSIVE evaluate_unpruned(_, _, _, _)
RECURSIVE evaluate_unpruned_loop(_, _, _, _, _, _)
evaluate_unpruned(st, d, player, level) ==
    IF level = d
    THEN st.score[player] - st.score[other(player)]
    ELSE evaluate_unpruned_loop(st, d, player, level, 0, -(INT_MAX))

evaluate_unpruned_loop(st, d, player, level, i, best) ==
    IF i >= size_x THEN -(best)
    ELSE
    LET dr == drop_piece(st, other(player), drop_order[i])
    IN  IF dr.row < 0
        THEN evaluate_unpruned_loop(st, d, player, level, i + 1, best)
        ELSE
        LET goodness == IF dr.st.winner = other(player)
                        THEN INT_MAX - (d + 1)
                        ELSE evaluate_unpruned(dr.st, d + 1, other(player),
                                               level)
        IN  evaluate_unpruned_loop(st, d, player, level, i + 1,
                IF goodness > best THEN goodness ELSE best)

RECURSIVE auto_move_unpruned(_, _, _, _, _, _)
auto_move_unpruned(st, player, level, i, best_worst, best_columns) ==
    IF i >= size_x
    THEN [best_worst |-> best_worst, best_columns |-> best_columns]
    ELSE
    LET current_column == drop_order[i]
        dr == drop_piece(st, player, current_column)
    IN  IF dr.row < 0
        THEN auto_move_unpruned(st, player, level, i + 1, best_worst,
                                best_columns)
        ELSE IF dr.st.winner = player
        THEN [best_worst |-> best_worst, best_columns |-> {current_column}]
        ELSE
        LET goodness == evaluate_unpruned(dr.st, 1, player, level)
        IN  IF goodness > best_worst
            THEN auto_move_unpruned(st, player, level, i + 1, goodness,
                                    {current_column})
            ELSE IF goodness = best_worst
            THEN auto_move_unpruned(st, player, level, i + 1, best_worst,
                                    best_columns \cup {current_column})
            ELSE auto_move_unpruned(st, player, level, i + 1, best_worst,
                                    best_columns)

(***************************************************************************)
(* Connect4Game.js: the state stack, _evaluate and autoMove.               *)
(***************************************************************************)
Top(g) == g._stateStack[Len(g._stateStack)]

SetTop(g, st) == [g EXCEPT !._stateStack[Len(g._stateStack)] = st]

\* _clone copies every own property of the state object.
_clone(obj) ==
    [ numberOfPieces |-> obj.numberOfPieces, winner |-> obj.winner,
      tie |-> obj.tie, gameOver |-> obj.gameOver, board |-> obj.board,
      stats |-> obj.stats, map |-> obj.map,
      winningCoords |-> obj.winningCoords, score |-> obj.score ]

_pushState(g) ==
    [g EXCEPT !._stateStack = Append(@, _clone(Top(g)))]

_popState(g) ==
    [g EXCEPT !._stateStack = SubSeq(@, 1, Len(@) - 1)]

_goodnessOf(st, player) == st.score[player] - st.score[_other(player)]

\* a - b in double arithmetic, for an integer b far below the spacing of
\* doubles around Number.MAX_VALUE.
FloatSub(a, b) ==
    IF a = MAX_VALUE \/ a = -(MAX_VALUE) THEN a ELSE a - b

\* Result r of a search with peak raised to n if n is larger; peak is the
\* largest length _stateStack had during the search.
Peaked(r, n) == [r EXCEPT !.peak = IF n > @ THEN n ELSE @]

\* _evaluate on instance g: the value returned (or the error thrown), the
\* instance afterwards and the largest length of _stateStack on the way.
RECURSIVE _evaluate(_, _, _, _, _)
RECURSIVE _evaluate_loop(_, _, _, _, _, _, _, _)
RECURSIVE _evaluate_dropped(_, _, _, _, _, _, _, _, _)
RECURSIVE _evaluate_valued(_, _, _, _, _, _, _, _)
RECURSIVE _evaluate_popped(_, _, _, _, _, _, _, _)
_evaluate(g, player, level, alpha, beta) ==
    IF level = Len(g._stateStack)
    THEN [val |-> _goodnessOf(Top(g), player), g |-> g, thrown |-> "",
          peak |-> Len(g._stateStack)]
    ELSE _evaluate_loop(g, player, level, beta, Len(g._stateStack), 1,
                        -(MAX_VALUE), alpha)

\* Iteration i of the loop of _evaluate: the state is pushed and the piece
\* dropped in column _dropOrder[i].
_evaluate_loop(g, player, level, beta, jsdepth, i, best, maxab) ==
    IF i > g._cols
    THEN [val |-> -(best), g |-> g, thrown |-> "",
          peak |-> Len(g._stateStack)]
    ELSE IF ~IsArrayIndex(g._dropOrder[i], g._cols)
    THEN [val |-> 0, g |-> _pushState(g), thrown |-> "TypeError",
          peak |-> Len(g._stateStack) + 1]
    ELSE _evaluate_dropped(_pushState(g), player, level, beta, jsdepth, i,
                           best, maxab,
                           _dropPiece(Top(g), _other(player),
                                      g._dropOrder[i] \div 2))

\* The iteration after _dropPiece returned d on the pushed instance g1.
_evaluate_dropped(g1, player, level, beta, jsdepth, i, best, maxab, d) ==
    IF d.row < 0
    THEN Peaked(_evaluate_loop(_popState(g1), player, level, beta, jsdepth,
                               i + 1, best, maxab),
                Len(g1._stateStack))
    ELSE _evaluate_valued(player, level, beta, jsdepth, i, best, maxab,
                          IF d.st.winner = _other(player)
                          THEN [val |-> FloatSub(MAX_VALUE, jsdepth),
                                g |-> SetTop(g1, d.st), thrown |-> "",
                                peak |-> Len(g1._stateStack)]
                          ELSE _evaluate(SetTop(g1, d.st), _other(player),
                                         level, -(beta), -(maxab)))

\* The iteration once the goodness r.val of the drop is known: best and
\* maxab are updated.
_evaluate_valued(player, level, beta, jsdepth, i, best, maxab, r) ==
    IF r.thrown # "" THEN r
    ELSE _evaluate_popped(player, level, beta, jsdepth, i, r,
                          IF r.val > best THEN r.val ELSE best,
                          IF r.val > best /\ r.val > maxab
                          THEN r.val ELSE maxab)

\* The end of the iteration: _popState, and the cutoff if best > beta.
_evaluate_popped(player, level, beta, jsdepth, i, r, best, maxab) ==
    IF best > beta
    THEN [val |-> -(best), g |-> _popState(r.g), thrown |-> "",
          peak |-> r.peak]
    ELSE Peaked(_evaluate_loop(_popState(r.g), player, level, beta, jsdepth,
                               i + 1, best, maxab),
                r.peak)

\* The values of Math.floor(Math.random()*2).
Coins == {0, 1}

\* The rest of an iteration of the root loop of autoMove once goodness is
\* known: the locals bestColumn and bestWorst afterwards; coin is the value
\* of Math.floor(Math.random()*2) if a random decision is made.
autoMove_tail(a, column, goodness, coin) ==
    IF goodness > a.bestWorst
    THEN [bestColumn |-> column, bestWorst |-> goodness]
    ELSE IF goodness = a.bestWorst
    THEN IF a.bestColumn = -1 \/ coin > 0
         THEN [a EXCEPT !.bestColumn = column]
         ELSE a
    ELSE a

\* The root loop of autoMove from iteration i on.  The coin flips of the
\* tie-break are not fixed: bestColumns is the set of values bestColumn can
\* have after the loop.
RECURSIVE autoMove_loop(_, _, _, _, _, _)
RECURSIVE autoMove_dropped(_, _, _, _, _, _, _, _)
RECURSIVE autoMove_valued(_, _, _, _, _, _, _)
autoMove_loop(g, player, ai, i, bestColumns, bestWorst) ==
    IF i > g._cols
    THEN [g |-> g, bestColumns |-> bestColumns, bestWorst |-> bestWorst,
          thrown |-> "", peak |-> Len(g._stateStack)]
    ELSE IF ~IsArrayIndex(g._dropOrder[i], g._cols)
    THEN [g |-> _pushState(g), bestColumns |-> bestColumns,
          bestWorst |-> bestWorst, thrown |-> "TypeError",
          peak |-> Len(g._stateStack) + 1]
    ELSE autoMove_dropped(_pushState(g), player, ai, i, bestColumns,
                          bestWorst, g._dropOrder[i] \div 2,
                          _dropPiece(Top(g), player,
                                     g._dropOrder[i] \div 2))

\* The iteration after _dropPiece returned d on the pushed instance g1.
autoMove_dropped(g1, player, ai, i, bestColumns, bestWorst, column, d) ==
    IF d.row < 0
    THEN Peaked(autoMove_loop(_popState(g1), player, ai, i + 1,
                              bestColumns, bestWorst),
                Len(g1._stateStack))
    ELSE IF d.st.winner = player
    THEN [g |-> _popState(g1), bestColumns |-> {column},
          bestWorst |-> bestWorst, thrown |-> "",
          peak |-> Len(g1._stateStack)]
    ELSE autoMove_valued(player, ai, i, bestColumns, bestWorst, column,
                         _evaluate(SetTop(g1, d.st), player, ai,
                                   -(MAX_VALUE), -(bestWorst)))

\* The iteration once _evaluate returned r: goodness is r.val.
autoMove_valued(player, ai, i, bestColumns, bestWorst, column, r) ==
    IF r.thrown # ""
    THEN [g |-> r.g, bestColumns |-> bestColumns, bestWorst |-> bestWorst,
          thrown |-> r.thrown, peak |-> r.peak]
    ELSE Peaked(autoMove_loop(_popState(r.g), player, ai, i + 1,
                              { autoMove_tail([bestColumn |-> b,
                                               bestWorst |-> bestWorst],
                                              column, r.val, coin).bestColumn :
                                    b \in bestColumns, coin \in Coins },
                              autoMove_tail([bestColumn |-> -1,
                                             bestWorst |-> bestWorst],
                                            column, r.val, 0).bestWorst),
                r.peak)

Clamp(ai) == IF ai < 0 THEN 0 ELSE IF ai > 20 THEN 20 ELSE ai

\* The result m of makeMove with what is recorded of the automatic move:
\* whether the root loop was entered, bestWorst after it, and the largest
\* length _stateStack had.
Observed(m, searched, best, peak) ==
    [g |-> m.g, thrown |-> m.thrown, col |-> m.col, row |-> m.row,
     searched |-> searched, best |-> best, peak |-> peak]

\* The results autoMove(player, ai) can have on instance g.
autoMoveOn(g, player, ai) ==
    IF /\ Top(g).numberOfPieces < 2
       /\ g._cols = 7 /\ g._rows = 6 /\ g._connect = 4
       /\ \/ Top(g).numberOfPieces = 0
          \/ Top(g).board[3][0] # 2
    THEN {Observed(makeMoveOn(g, player, 3), FALSE, 0, Len(g._stateStack))}
    ELSE LET r == autoMove_loop(g, player, Clamp(ai), 1, {-1}, -(MAX_VALUE))
         IN  IF r.thrown # ""
             THEN {[g |-> r.g, thrown |-> r.thrown, col |-> -1, row |-> -1,
                    searched |-> TRUE, best |-> r.bestWorst,
                    peak |-> r.peak]}
             ELSE {Observed(makeMoveOn(r.g, player, b), TRUE, r.bestWorst,
                            r.peak) :
                       b \in r.bestColumns}

autoMove(player, ai) ==
    /\ JSReady
    /\ pre' = [state |-> currentState, depth |-> Len(connect4._stateStack)]
    /\ \E r \in autoMoveOn(connect4, player, ai) :
           /\ connect4' = r.g
           /\ ret' = [op |-> "auto_move", player |-> player, column |-> -1,
                      level |-> ai, ok |-> (r.thrown = "" /\ r.row >= 0),
                      thrown |-> r.thrown,
                      out_column |-> r.col, out_row |-> r.row,
                      searched |-> r.searched, best |-> r.best,
                      peak |-> r.peak]
    /\ UNCHANGED <<fvars, engine, cvars, auto_moves, pvars, aborted>>

Next ==
    \/ \E p \in Players, c \in -1..size_x : c4_make_move(p, c)
    \/ \E p \in Players, l \in Levels : c4_auto_move(p, l)
    \/ auto_move_iter
    \/ eval_entry
    \/ eval_iter
    \/ eval_exit
    \/ auto_move_finish
    \/ \E p \in Players, c \in -1..connect4._cols : makeMove(p, c)
    \/ \E p \in Players, l \in Levels : autoMove(p, l)

Spec == Init /\ [][Next]_vars

(***************************************************************************)
(* The life cycle of a game: c4_new_game, c4_end_game and c4_reset of      *)
(* c4.c, and the worker's 'new' message.                                   *)
(***************************************************************************)
GeomCols    == 7   \* c4_new_game / 'new': widths 1..GeomCols
GeomRows    == 6   \* heights 1..GeomRows
GeomConnect == 4   \* connect lengths 1..GeomConnect

GeomGeometries == (1..GeomCols) \X (1..GeomRows) \X (1..GeomConnect)

\* The record of a call that is no move (ok is the result of a move).
Done(op) == [ op |-> op, player |-> 0, column |-> 0, level |-> 0,
              ok |-> FALSE, thrown |-> "", out_column |-> 0, out_row |-> 0 ]

\* Mutant of c4_new_game_call: the game is set up without testing that no
\* game is in progress.
c4_new_game_call_unchecked(width, height, num) ==
    /\ CRunning
    /\ size_x' = width
    /\ size_y' = height
    /\ num_to_connect' = num
    /\ magic_win_number' = ShiftLeft1(num)
    /\ win_places' = num_of_win_places(width, height, num)
    /\ depth' = 0
    /\ state_stack' =
         [state_stack EXCEPT ![0] =
            NewGameState(width, height,
                         num_of_win_places(width, height, num))]
    /\ states_allocated' = 1
    /\ map' = BuildMap(width, height, num)
    /\ drop_order' =
         [i \in 0..(width - 1) |->
             BuildDropOrder(width, 1, (width - 1) \div 2)[i + 1]]
    /\ game_in_progress' = TRUE
    /\ ret' = NoCall
    /\ pre' = NoPre
    /\ UNCHANGED <<fvars, engine, move_in_progress, am, ev, pvars, aborted,
                   connect4, auto_moves>>

\* c4_new_game(width, height, num) called by the front end.  Only the frame
\* state_stack[0] is set up; the other frames keep what they hold.
c4_new_game_call(width, height, num) ==
    /\ CRunning
    /\ IF game_in_progress \/ ~(width >= 1 /\ height >= 1 /\ num >= 1)
       THEN AssertionFailed("new_game")
       ELSE /\ size_x' = width
            /\ size_y' = height
            /\ num_to_connect' = num
            /\ magic_win_number' = ShiftLeft1(num)
            /\ win_places' = num_of_win_places(width, height, num)
            /\ depth' = 0
            /\ state_stack' =
                 [state_stack EXCEPT ![0] =
                    NewGameState(width, height,
                                 num_of_win_places(width, height, num))]
            /\ states_allocated' = 1
            /\ map' = BuildMap(width, height, num)
            /\ drop_order' =
                 [i \in 0..(width - 1) |->
                     BuildDropOrder(width, 1, (width - 1) \div 2)[i + 1]]
            /\ game_in_progress' = TRUE
            /\ ret' = NoCall
            /\ pre' = NoPre
            /\ UNCHANGED <<fvars, engine, move_in_progress, am, ev, pvars, aborted,
                           connect4, auto_moves>>

\* The frames after c4_end_game has freed the boards and score arrays of the
\* allocated ones.  The pointers are left dangling; nothing reads them before
\* c4_new_game or push_state replaces them, so they are shown as empty.  The
\* other fields of a frame are not touched.
FreedStack ==
    [d \in 0..C4_MAX_LEVEL |->
        IF d < states_allocated
        THEN [state_stack[d] EXCEPT !.board = <<>>, !.score_array = <<>>]
        ELSE state_stack[d]]

c4_end_game ==
    /\ CRunning
    /\ IF ~game_in_progress \/ move_in_progress
       THEN AssertionFailed("end_game")
       ELSE /\ map' = <<>>
            /\ state_stack' = FreedStack
            /\ states_allocated' = 0
            /\ drop_order' = <<>>
            /\ game_in_progress' = FALSE
            /\ ret' = Done("end_game")
            /\ UNCHANGED <<fvars, engine, size_x, size_y, num_to_connect, win_places,
                           magic_win_number, move_in_progress, depth, am, ev,
                           pvars, aborted, connect4, pre, auto_moves>>

c4_reset ==
    /\ CRunning
    /\ IF move_in_progress
       THEN AssertionFailed("reset")
       ELSE /\ IF game_in_progress
               THEN /\ map' = <<>>
                    /\ state_stack' = FreedStack
                    /\ states_allocated' = 0
                    /\ drop_order' = <<>>
                    /\ game_in_progress' = FALSE
               ELSE UNCHANGED <<map, state_stack, states_allocated, drop_order,
                                game_in_progress>>
            /\ poll_function' = FALSE
            /\ ret' = Done("reset")
            /\ UNCHANGED <<fvars, engine, size_x, size_y, num_to_connect, win_places,
                           magic_win_number, move_in_progress, depth, am, ev,
                           poll_interval, next_poll, clock, polled, aborted,
                           connect4, pre, auto_moves>>

\* c4_board, c4_score_of_player, c4_is_winner and c4_is_tie: each asserts
\* that a game is in progress and then reads the current state.
Queries == {"board", "score_of_player", "is_winner", "is_tie"}

c4_query(q) ==
    /\ CRunning
    /\ IF ~game_in_progress
       THEN AssertionFailed(q)
       ELSE /\ ret' = Done(q)
            /\ UNCHANGED <<fvars, engine, cvars, pvars, aborted, connect4, pre,
                           auto_moves>>

\* The worker's onmessage with action 'new'.
onmessage_new(cols, rows, connect) ==
    /\ engine = "Connect4Game.js"
    /\ connect4' = Connect4Game(cols, rows, connect)
    /\ ret' = NoCall
    /\ pre' = NoPre
    /\ UNCHANGED <<fvars, engine, cvars, pvars, aborted, auto_moves>>

\* The program before any game: the statics of c4.c as the loader leaves
\* them, the worker's variable connect4 undefined.
NoGameYet ==
    /\ ret = NoCall
    /\ pre = NoPre
    /\ auto_moves = 0
    /\ poll_static_init
    /\ NoFacade
    /\ c4_static_init
    /\ connect4 = NoGame

GeomInit == NoGameYet /\ engine \in {"c4.c", "Connect4Game.js"}

GeomNext ==
    \/ \E g \in GeomGeometries : c4_new_game_call(g[1], g[2], g[3])
    \/ c4_end_game
    \/ c4_reset
    \/ \E g \in GeomGeometries : onmessage_new(g[1], g[2], g[3])

\* Games of every geometry are created and ended; no piece is played.
GeomSpec == GeomInit /\ [][GeomNext]_vars

LifeCells == 2   \* boards of the life cycle: width*height <= LifeCells

LifeGeometries == { g \in Geometries : g[1] * g[2] <= LifeCells }

LifeInit == NoGameYet /\ engine = "c4.c"

LifeNext ==
    \/ \E g \in LifeGeometries : c4_new_game_call(g[1], g[2], g[3])
    \/ c4_end_game
    \/ c4_reset
    \/ \E q \in Queries : c4_query(q)
    \/ \E p \in Players, c \in -1..size_x : c4_make_move(p, c)
    \/ \E p \in Players, l \in Levels : c4_auto_move(p, l)
    \/ auto_move_iter
    \/ eval_entry
    \/ eval_iter
    \/ eval_exit
    \/ auto_move_finish

\* c4.c from the start of the program: games are created, played and ended.
LifeSpec == LifeInit /\ [][LifeNext]_vars

(***************************************************************************)
(* The opening of a game on the standard board and on boards that differ   *)
(* from it in one dimension.                                               *)
(***************************************************************************)
MaxOpeningPieces == 2   \* moves are requested while the board holds at
                        \* most this many pieces
OpeningLevel     == 2   \* the search level of automatic moves in an opening

OpeningGeometries == {<<7, 6, 4>>, <<7, 6, 3>>, <<7, 5, 4>>, <<5, 6, 4>>}

\* The columns the front end plays in an opening: the centre column of the
\* standard board and two others.
OpeningColumns == {0, 3, 4}

Opening ==
    IF engine = "c4.c"
    THEN current_state.num_of_pieces <= MaxOpeningPieces
    ELSE currentState.numberOfPieces <= MaxOpeningPieces

OpeningInit ==
    \E g \in OpeningGeometries :
        /\ ret = NoCall
        /\ pre = NoPre
        /\ auto_moves = 0
        /\ poll_static_init
        /\ NoFacade
        /\ \/ /\ engine = "c4.c"
              /\ c4_new_game(g[1], g[2], g[3])
              /\ connect4 = NoGame
           \/ /\ engine = "Connect4Game.js"
              /\ c4_static_init
              /\ connect4 = Connect4Game(g[1], g[2], g[3])

OpeningNext ==
    \/ \E p \in Players, c \in OpeningColumns : Opening /\ c4_make_move(p, c)
    \/ \E p \in Players : Opening /\ c4_auto_move(p, OpeningLevel)
    \/ auto_move_iter
    \/ eval_entry
    \/ eval_iter
    \/ eval_exit
    \/ auto_move_finish
    \/ \E p \in Players, c \in OpeningColumns : Opening /\ makeMove(p, c)
    \/ \E p \in Players : Opening /\ autoMove(p, OpeningLevel)

\* Both engines during the first moves of a game.
OpeningSpec == OpeningInit /\ [][OpeningNext]_vars

(***************************************************************************)
(* c4.c: the poll function and the processor clock.                        *)
(***************************************************************************)
MaxClock    == 3   \* clock() returns 0..MaxClock
MaxInterval == 2   \* c4_poll is called with intervals 0..MaxInterval
PollCells   == 2   \* boards searched with a poll function: at most this size
StandardPieces == 1   \* on the standard board c4_make_move is called while
                      \* fewer pieces are on the board

\* c4_poll(poll_func, interval); poll_func is TRUE for a function, FALSE for
\* NULL.  The record of the calls of the poll function starts afresh.
c4_poll(poll_func, interval) ==
    /\ CRunning
    /\ poll_function' = poll_func
    /\ poll_interval' = interval
    /\ polled' = NoPolls
    /\ UNCHANGED <<fvars, engine, cvars, next_poll, clock, aborted, connect4, ret,
                   pre, auto_moves>>

\* Processor time passes: the next call of clock() returns a larger value.
clock_tick ==
    /\ engine = "c4.c" /\ ~aborted
    /\ clock < MaxClock
    /\ clock' = clock + 1
    /\ UNCHANGED <<fvars, engine, cvars, poll_function, poll_interval, next_poll,
                   polled, aborted, connect4, ret, pre, auto_moves>>

\* The functions the comment of c4_poll forbids the poll function to call.
Forbidden == {"make_move", "auto_move", "end_game", "reset"}

\* Mutant of move_assertion_fails: only game_in_progress is asserted.
move_assertion_fails_game_only(op) ==
    op # "reset" /\ ~game_in_progress

\* The assertions on game_in_progress and move_in_progress at the entry of
\* c4_make_move, c4_auto_move, c4_end_game and c4_reset: one of them fails.
move_assertion_fails(op) ==
    IF op = "reset" THEN move_in_progress
    ELSE ~game_in_progress \/ move_in_progress

\* Entry of evaluate when the poll function is due and calls a forbidden
\* function op.  If the assertions of op hold, op runs inside the search;
\* that is recorded in ret and not followed further.
poll_function_calls(op) ==
    /\ engine = "c4.c" /\ ~aborted /\ ev # <<>> /\ ev[Len(ev)].pc = "entry"
    /\ poll_function /\ next_poll <= clock
    /\ next_poll' = next_poll + poll_interval
    /\ polled' = [prev |-> polled.last, last |-> clock, depth |-> depth]
    /\ aborted' = move_assertion_fails(op)
    /\ ret' = [op |-> op, player |-> 0, column |-> 0, level |-> 0,
               ok |-> FALSE,
               thrown |-> IF move_assertion_fails(op)
                          THEN "Assertion failed" ELSE "",
               out_column |-> 0, out_row |-> 0]
    /\ UNCHANGED <<fvars, engine, cvars, poll_function, poll_interval, clock,
                   connect4, pre, auto_moves>>

\* The boards of the poll specification: the small ones, on which a poll
\* function is installed and the clock advances, and the standard board,
\* on which c4_auto_move is called with at most one piece on the board.
PollGeometries ==
    { g \in Geometries : g[1] * g[2] <= PollCells }
        \cup {<<GeomCols, GeomRows, GeomConnect>>}

SmallBoard == size_x * size_y <= PollCells

PollInit ==
    \E g \in PollGeometries :
        /\ ret = NoCall
        /\ pre = NoPre
        /\ auto_moves = 0
        /\ poll_static_init
        /\ NoFacade
        /\ engine = "c4.c"
        /\ c4_new_game(g[1], g[2], g[3])
        /\ connect4 = NoGame

PollNext ==
    \/ \E f \in BOOLEAN, t \in 0..MaxInterval : SmallBoard /\ c4_poll(f, t)
    \/ SmallBoard /\ clock_tick
    \/ \E p \in Players, c \in -1..size_x :
           /\ SmallBoard \/ current_state.num_of_pieces < StandardPieces
           /\ c4_make_move(p, c)
    \/ \E p \in Players, l \in Levels : c4_auto_move(p, l)
    \/ auto_move_iter
    \/ eval_entry
    \/ \E op \in Forbidden : poll_function_calls(op)
    \/ eval_iter
    \/ eval_exit
    \/ auto_move_finish

\* c4.c with a poll function installed by the front end and a clock that
\* advances between any two steps.
PollSpec == PollInit /\ [][PollNext]_vars

(***************************************************************************)
(* Connect4.js: the facade used by the page.  It posts messages to the     *)
(* worker (onmessage at the end of Connect4Game.js), which runs the engine *)
(* and posts the result back.  Messages are delivered in order, one at a   *)
(* time, each handler running to completion.                               *)
(***************************************************************************)
MaxFacadeMoves == 3   \* the page requests at most this many moves
FacadeCells    == 3   \* boards played through the facade: at most this size

FacadeGeometries == { g \in Geometries : g[1] * g[2] <= FacadeCells }

\* A message of the worker.  returnValue is undefined in a debug message.
Reply(action, col, row, player, g) ==
    [ action |-> action, col |-> col, row |-> row, player |-> player,
      currentState |-> Top(g),
      _cols |-> g._cols, _rows |-> g._rows, _connect |-> g._connect ]

DebugMessage ==
    [ action |-> "debug", col |-> 0, row |-> 0, player |-> 0,
      currentState |-> FacadeState0, _cols |-> 0, _rows |-> 0,
      _connect |-> 0 ]

\* new Connect4(settings): the instance, and the message 'new' posted.
FacadeInit ==
    \E g \in FacadeGeometries :
        /\ engine = "Connect4Game.js"
        /\ ret = NoCall
        /\ pre = NoPre
        /\ auto_moves = 0
        /\ poll_static_init
        /\ c4_static_init
        /\ connect4 = NoGame
        /\ facade = subscribe(NewFacade, "gamestart", "callback")
        /\ to_worker = << [action |-> "new", args |-> g] >>
        /\ to_facade = <<>>
        /\ published = NoEvents
        /\ api = NoApi

\* Mutant of facade_rejects: a move in progress is not a reason to throw.
facade_rejects_game_over_only ==
    IF facade.state.gameOver THEN "The game is over." ELSE ""

\* Mutant of facade_rejects: a game that is over is not a reason to throw.
facade_rejects_in_progress_only ==
    IF facade.moveInProgress THEN "There is currently a move in progress"
    ELSE ""

\* The test at the head of Connect4.prototype.makeMove and autoMove: the
\* message of the error thrown, or "" if the request is accepted.
facade_rejects ==
    IF facade.moveInProgress THEN "There is currently a move in progress"
    ELSE IF facade.state.gameOver THEN "The game is over."
    ELSE ""

\* Connect4.prototype.makeMove(player, column) and autoMove(player, ai):
\* action is the name of the method, args its arguments.
facade_move(action, args) ==
    /\ engine = "Connect4Game.js"
    /\ published.movestart < MaxFacadeMoves
    /\ api' = [api EXCEPT !.op = action, !.thrown = facade_rejects]
    /\ IF facade_rejects # ""
       THEN UNCHANGED <<facade, to_worker, published>>
       ELSE /\ facade' = [facade EXCEPT !.moveInProgress = TRUE]
            /\ published' = [published EXCEPT
                                !.movestart = @ + 1,
                                !.last = <<"movestart">>,
                                !.invoked = _publish(facade, "movestart")]
            /\ to_worker' = Append(to_worker,
                                   [action |-> action, args |-> args])
    /\ UNCHANGED <<engine, cvars, pvars, aborted, connect4, ret, pre,
                   auto_moves, to_facade>>

\* The worker's onmessage, action 'new': the game is built and posted.
worker_new(g) ==
    /\ connect4' = g
    /\ ret' = NoCall
    /\ pre' = NoPre
    /\ to_facade' = Append(to_facade, Reply("new", 0, 0, 0, g))

\* The worker's onmessage, action makeMove or autoMove, with the outcome r
\* of the method.  makeMove, once entered, posts a debug message (those of
\* the search of autoMove are left out); an error thrown by the method ends
\* the handler before its postMessage.
worker_move(data, op, column, level, r) ==
    /\ pre' = [state |-> currentState, depth |-> Len(connect4._stateStack)]
    /\ connect4' = r.g
    /\ ret' = [op |-> op, player |-> data.args[1], column |-> column,
               level |-> level, ok |-> (r.thrown = "" /\ r.row >= 0),
               thrown |-> r.thrown, out_column |-> r.col,
               out_row |-> r.row, searched |-> r.searched, best |-> r.best,
               peak |-> r.peak]
    /\ to_facade' = IF r.thrown = "TypeError" THEN to_facade
                    ELSE IF r.thrown # ""
                    THEN Append(to_facade, DebugMessage)
                    ELSE to_facade \o << DebugMessage,
                                         Reply(data.action, r.col, r.row,
                                               data.args[1], r.g) >>

\* The worker's onmessage on the oldest message.
worker_onmessage ==
    /\ engine = "Connect4Game.js" /\ to_worker # <<>>
    /\ to_worker' = Tail(to_worker)
    /\ \E data \in {Head(to_worker)} :
       \E a1 \in {data.args[1]}, a2 \in {data.args[2]} :
          \/ /\ data.action = "new"
             /\ \E a3 \in {data.args[3]} :
                \E g \in {Connect4Game(a1, a2, a3)} : worker_new(g)
          \/ /\ data.action = "makeMove"
             /\ \E r \in {Observed(makeMoveOn(connect4, a1, a2),
                                    FALSE, 0, Len(connect4._stateStack))} :
                   worker_move(data, "make_move", a2, 0, r)
          \/ /\ data.action = "autoMove"
             /\ \E r \in autoMoveOn(connect4, a1, a2) :
                   worker_move(data, "auto_move", -1, a2, r)
    /\ UNCHANGED <<engine, cvars, pvars, aborted, auto_moves, facade,
                   published, api>>

\* _updateState, then _moveEnd, _gameStart or nothing, by the action.
facade_handled(data) ==
    [facade EXCEPT
       !.state = IF data.action = "debug" THEN @ ELSE data.currentState,
       !.moveInProgress = IF data.action \in {"autoMove", "makeMove"}
                          THEN FALSE ELSE @,
       !.columns = IF data.action = "new" THEN data._cols ELSE @,
       !.rows = IF data.action = "new" THEN data._rows ELSE @,
       !.connect = IF data.action = "new" THEN data._connect ELSE @]

\* The event published for a message of the worker.
facade_event(data) ==
    IF data.action \in {"autoMove", "makeMove"} THEN "moveend"
    ELSE IF data.action = "new" THEN "gamestart"
    ELSE "debug"

\* Connect4.prototype._onmessage on the oldest message of the worker.
facade_onmessage ==
    /\ engine = "Connect4Game.js" /\ to_facade # <<>>
    /\ to_facade' = Tail(to_facade)
    /\ \E data \in {Head(to_facade)} :
          /\ facade' = facade_handled(data)
          /\ published' =
                [published EXCEPT
                   ![facade_event(data)] = @ + 1,
                   !.gameend = IF facade_handled(data).state.gameOver
                               THEN @ + 1 ELSE @,
                   !.last = IF facade_handled(data).state.gameOver
                            THEN <<facade_event(data), "gameend">>
                            ELSE <<facade_event(data)>>,
                   !.invoked = IF facade_handled(data).state.gameOver
                               THEN _publish(facade, facade_event(data))
                                        \o _publish(facade, "gameend")
                               ELSE _publish(facade, facade_event(data))]
    /\ UNCHANGED <<engine, cvars, pvars, aborted, connect4, ret, pre,
                   auto_moves, to_worker, api>>

FacadeNext ==
    \/ \E p \in Players, c \in -1..facade.columns :
           facade_move("makeMove", <<p, c>>)
    \/ \E p \in Players, l \in Levels : facade_move("autoMove", <<p, l>>)
    \/ worker_onmessage
    \/ facade_onmessage

\* A page playing through the facade.
FacadeSpec == FacadeInit /\ [][FacadeNext]_vars

(***************************************************************************)
(* Connect4.js: subscribe and unsubscribe, called by the page between the  *)
(* messages of a game on a board of one column.                            *)
(***************************************************************************)
SubRows    == 2   \* height of the board
SubConnect == 2
MaxArrays  == 4   \* subscribe and unsubscribe create at most this many arrays

Handlers         == {"drawMove", "logMove"}
SubscribedEvents == {"moveend", "gameend"}

SubscribeInit == FacadeInit /\ to_worker[1].args = <<1, SubRows, SubConnect>>

\* The page calls subscribe(event, handler) for a handler it has not
\* subscribed to the event.
page_subscribe(event, handler) ==
    /\ engine = "Connect4Game.js"
    /\ facade.arrays < MaxArrays
    /\ \A i \in 1..Len(_publish(facade, event)) :
           _publish(facade, event)[i] # <<event, handler>>
    /\ facade' = subscribe(facade, event, handler)
    /\ api' = [api EXCEPT !.op = "subscribe", !.thrown = ""]
    /\ UNCHANGED <<engine, cvars, pvars, aborted, connect4, ret, pre,
                   auto_moves, to_worker, to_facade, published>>

\* The page calls unsubscribe(event, handler).
page_unsubscribe(event, handler) ==
    /\ engine = "Connect4Game.js"
    /\ facade.arrays < MaxArrays
    /\ IF event \notin DOMAIN facade._subscribers
       THEN /\ api' = [api EXCEPT !.op = "unsubscribe", !.thrown = "TypeError"]
            /\ UNCHANGED facade
       ELSE /\ facade' = unsubscribe(facade, event, handler)
            /\ api' = [api EXCEPT
                         !.op = "unsubscribe", !.thrown = "",
                         !.unsubscribed =
                             IF \E i \in 1..Len(facade._subscribers[event]) :
                                   facade._subscribers[event][i].handler = handler
                             THEN @ \cup {<<event, handler>>} ELSE @,
                         !.sliced =
                             slice(facade._subscribers[event],
                                   indexOf(facade._subscribers[event],
                                           facade.arrays),
                                   1)]
    /\ UNCHANGED <<engine, cvars, pvars, aborted, connect4, ret, pre,
                   auto_moves, to_worker, to_facade, published>>

SubscribeNext ==
    \/ FacadeNext
    \/ \E e \in SubscribedEvents, h \in Handlers : page_subscribe(e, h)
    \/ \E e \in SubscribedEvents, h \in Handlers : page_unsubscribe(e, h)

\* A page that subscribes and unsubscribes handlers while it plays.
SubscribeSpec == SubscribeInit /\ [][SubscribeNext]_vars

(***************************************************************************)
(* Engine-independent view of the game, used to state the properties.      *)
(***************************************************************************)
IsC == engine = "c4.c"

Cols    == IF IsC THEN size_x ELSE connect4._cols
Rows    == IF IsC THEN size_y ELSE connect4._rows
Connect == IF IsC THEN num_to_connect ELSE connect4._connect
Empty   == IF IsC THEN C4_NONE ELSE JS_none

\* The fields of a frame of either engine under common names.
CFrame(st) ==
    [ board |-> st.board, potential |-> st.score_array, score |-> st.score,
      winner |-> st.winner, pieces |-> st.num_of_pieces ]

JSFrame(st) ==
    [ board |-> st.board, potential |-> st.stats, score |-> st.score,
      winner |-> st.winner, pieces |-> st.numberOfPieces ]

Current == IF IsC THEN CFrame(current_state) ELSE JSFrame(currentState)
Before  == IF IsC THEN CFrame(pre.state) ELSE JSFrame(pre.state)

\* Frames in use: the committed state and the hypothetical ones above it.
FramesInUse ==
    IF IsC THEN { CFrame(state_stack[d]) : d \in 0..depth }
    ELSE { JSFrame(connect4._stateStack[i]) :
               i \in 1..Len(connect4._stateStack) }

StackDepth == IF IsC THEN depth ELSE Len(connect4._stateStack)

\* A public call was made and has come back (no search is running).
Returned == ret.op # "new" /\ ~am.active

\* The lines of every geometry, in id order; Lines are those of this game.
LinesOf == { <<g, WinLines(g[1], g[2], g[3])>> : g \in Geometries }

Lines == (CHOOSE t \in LinesOf : t[1] = <<Cols, Rows, Connect>>)[2]

Holds(board, p, line) == { k \in 1..Len(line) : board[line[k][1]][line[k][2]] = p }

Pow2(k) == ShiftLeft1(k)

Sum(f) ==
    LET RECURSIVE Acc(_)
        Acc(D) == IF D = {} THEN 0
                  ELSE LET d == CHOOSE d \in D : TRUE
                       IN  f[d] + Acc(D \ {d})
    IN  Acc(DOMAIN f)

ColumnFull(board, c) == \A y \in 0..(Rows - 1) : board[c][y] # Empty

Height(board, c) == Cardinality({ y \in 0..(Rows - 1) : board[c][y] # Empty })

\* Some line through cell <<x, y>> has all its cells owned by p.
CompletesLine(board, p, x, y) ==
    LET lines == Lines
    IN  \E id \in 1..Len(lines) :
            /\ \E k \in 1..Len(lines[id]) : lines[id][k] = <<x, y>>
            /\ Holds(board, p, lines[id]) = 1..Len(lines[id])

\* Non-full columns in which a drop of p completes a line.
WinningColumns(board, p) ==
    { c \in 0..(Cols - 1) :
        /\ ~ColumnFull(board, c)
        /\ CompletesLine([board EXCEPT ![c][Height(board, c)] = p], p,
                         c, Height(board, c)) }

IsWinner(p) == IF IsC THEN c4_is_winner(p) ELSE isWinner(p)
IsTie       == IF IsC THEN c4_is_tie ELSE isTie

\* The last call dropped a piece: where it landed and whose it is.
Dropped == Returned /\ ret.ok
Mover   == Current.board[ret.out_column][ret.out_row]

(***************************************************************************)
(* C1.  A drop into a full column (c4_make_move, makeMove) reports failure *)
(* (FALSE, row -1) and leaves the current state - board, both potential    *)
(* arrays, both scores, winner, piece count - and the stack as they were   *)
(* before the call, for either player.                                     *)
(***************************************************************************)
FullColumnDrop ==
    /\ Returned /\ ret.op = "make_move"
    /\ ret.column \in 0..(Cols - 1)
    /\ ColumnFull(Before.board, ret.column)

C1_FullColumnDropFails ==
    FullColumnDrop =>
        /\ ~ret.ok /\ ret.out_row = -1
        /\ Current = Before
        /\ (IF IsC THEN current_state ELSE currentState) = pre.state
        /\ StackDepth = pre.depth

C1_Witness == FullColumnDrop /\ ret.player = 1 /\ Before.winner = Empty

C3_ScoreIsSumOfPotentials ==
    \A f \in FramesInUse : \A p \in Players :
        f.score[p] = Sum(f.potential[p])

\* A hypothetical frame in which both scores have moved.
C3_Witness ==
    /\ StackDepth > pre.depth
    /\ \E f \in FramesInUse :
          /\ f.score[0] # f.score[1]
          /\ \E id \in DOMAIN f.potential[0] : f.potential[0][id] = 0
          /\ \E id \in DOMAIN f.potential[1] : f.potential[1][id] = 0

(***************************************************************************)
(* C4.  For every line id, the two players' potentials are never both      *)
(* non-zero unless both are 1: once a player has a piece in the line, the  *)
(* other player's entry is 0.                                              *)
(***************************************************************************)
C4_PotentialsExclusive ==
    LET lines == Lines
    IN  \A f \in FramesInUse : \A id \in 1..Len(lines) :
            /\ (f.potential[0][id - 1] # 0 /\ f.potential[1][id - 1] # 0)
                  => (f.potential[0][id - 1] = 1 /\ f.potential[1][id - 1] = 1)
            /\ \A p \in Players :
                  Holds(f.board, p, lines[id]) # {}
                      => f.potential[other(p)][id - 1] = 0

\* A line holding pieces of both players next to an untouched line.
C4_Witness ==
    \E f \in FramesInUse : \E id, id2 \in 1..Len(Lines) :
        /\ Holds(f.board, 0, Lines[id]) # {}
        /\ Holds(f.board, 1, Lines[id]) # {}
        /\ f.potential[0][id2 - 1] = 1 /\ f.potential[1][id2 - 1] = 1

(***************************************************************************)
(* C5.  potential[p][L] is 0 if the opponent of p occupies a cell of line  *)
(* L, and otherwise 2^k with k the number of cells of L occupied by p.     *)
(***************************************************************************)
C5_PotentialValue ==
    LET lines == Lines
    IN  \A f \in FramesInUse :
            /\ \A p \in Players : DOMAIN f.potential[p] = 0..(Len(lines) - 1)
            /\ \A p \in Players : \A id \in 1..Len(lines) :
                  f.potential[p][id - 1] =
                      IF Holds(f.board, other(p), lines[id]) # {} THEN 0
                      ELSE Pow2(Cardinality(Holds(f.board, p, lines[id])))

\* A line with two pieces of one player and none of the other.
C5_Witness ==
    \E f \in FramesInUse : \E p \in Players : \E id \in 1..Len(Lines) :
        /\ Cardinality(Holds(f.board, p, Lines[id])) = 2
        /\ f.potential[p][id - 1] = 4

(***************************************************************************)
(* C6.  Gravity: in every column the occupied cells are rows 0..k-1 for    *)
(* some k; no occupied cell has an empty cell beneath it.                  *)
(***************************************************************************)
C6_Gravity ==
    \A f \in FramesInUse : \A x \in 0..(Cols - 1) : \A y \in 1..(Rows - 1) :
        f.board[x][y] # Empty => f.board[x][y - 1] # Empty

\* A piece resting on another one, beside a full and an empty column.
C6_Witness ==
    /\ Dropped /\ ret.out_row = 1
    /\ \E x \in 0..(Cols - 1) : ColumnFull(Current.board, x) /\ x # ret.out_column
    /\ \E x \in 0..(Cols - 1) : Current.board[x][0] = Empty

(***************************************************************************)
(* C7.  As claimed: isTie() is true exactly when the piece count is W*H    *)
(* and no winner is recorded, so isTie() and isWinner(p) are never both    *)
(* true, not even when the drop that fills the last cell completes a line. *)
(***************************************************************************)
BoardFull(board) == \A c \in 0..(Cols - 1) : ColumnFull(board, c)

C7_TieIffFullAndNoWinner ==
    ~am.active =>
        /\ IsTie <=> (Current.pieces = Cols * Rows /\ Current.winner = Empty)
        /\ \A p \in Players : ~(IsTie /\ IsWinner(p))

(***************************************************************************)
(* C7, amended.  The piece count is W*H exactly when the board is full.    *)
(* isTie() of Connect4Game.js is true exactly when the board is full and   *)
(* no winner is recorded, and is never true together with isWinner(p).     *)
(* c4_is_tie() of c4.c is true exactly when the board is full, whether or  *)
(* not a winner is recorded.                                               *)
(***************************************************************************)
C7_TieByEngine ==
    ~am.active =>
        /\ (Current.pieces = Cols * Rows) <=> BoardFull(Current.board)
        /\ IF IsC
           THEN c4_is_tie <=> BoardFull(Current.board)
           ELSE /\ isTie <=> (BoardFull(Current.board) /\ Current.winner = Empty)
                /\ \A p \in Players : ~(isTie /\ isWinner(p))

\* The drop that fills the last cell completes a line, on either engine.
LastCellWins ==
    /\ Dropped
    /\ Before.winner = Empty
    /\ BoardFull(Current.board)
    /\ Cols * Rows > 1
    /\ CompletesLine(Current.board, Mover, ret.out_column, ret.out_row)

C7_Witness == LastCellWins /\ (IsC => c4_is_tie /\ c4_is_winner(Mover))

(***************************************************************************)
(* C8.  Mate-in-one is always taken: with no winner recorded and a         *)
(* non-full column in which a drop of player completes a line, autoMove    *)
(* (player, level) commits a drop in such a column and isWinner(player) is *)
(* true right after, at every level.                                       *)
(***************************************************************************)
AutoMoveOver == ~am.active /\ ret.op = "auto_move"

C8_MateInOneTaken ==
    ( /\ AutoMoveOver
      /\ Before.winner = Empty
      /\ WinningColumns(Before.board, ret.player) # {} )
    => /\ ret.ok
       /\ ret.out_column \in WinningColumns(Before.board, ret.player)
       /\ Mover = ret.player
       /\ IsWinner(ret.player)

(***************************************************************************)
(* C9.  autoMove(player, level) fails if and only if every column is full; *)
(* otherwise it succeeds and adds exactly one piece, owned by player, at   *)
(* the returned column and row.                                            *)
(***************************************************************************)
C9_AutoMoveFailsIffFull ==
    AutoMoveOver =>
        /\ ~ret.ok <=> BoardFull(Before.board)
        /\ ret.ok =>
              /\ ret.out_column \in 0..(Cols - 1)
              /\ ret.out_row \in 0..(Rows - 1)
              /\ Before.board[ret.out_column][ret.out_row] = Empty
              /\ Current.board =
                    [Before.board EXCEPT ![ret.out_column][ret.out_row] = ret.player]
              /\ Current.pieces = Before.pieces + 1

(***************************************************************************)
(* C10.  Every push made during autoMove has a matching pop: once autoMove *)
(* is over the stack depth is what it was before the call, and the current *)
(* state is the state before the call with the one committed drop (or      *)
(* that state itself on failure).                                          *)
(***************************************************************************)
\* The state before the call with player's piece dropped in column.
Committed(player, column) ==
    IF IsC THEN drop_piece(pre.state, player, column).st
    ELSE Top(makeMoveOn([connect4 EXCEPT !._stateStack = <<pre.state>>],
                        player, column).g)

C10_PushesMatchPops ==
    AutoMoveOver =>
        /\ StackDepth = pre.depth
        /\ (IF IsC THEN current_state ELSE currentState) =
              IF ret.ok THEN Committed(ret.player, ret.out_column)
              ELSE pre.state

(***************************************************************************)
(* C11.  makeMove with a column below 0 or not below W fails (c4_make_move *)
(* returns FALSE, makeMove throws 'Not a valid column.') and changes no    *)
(* field of the current state.                                             *)
(***************************************************************************)
InvalidColumnMove ==
    /\ Returned /\ ret.op = "make_move"
    /\ (ret.column < 0 \/ ret.column >= Cols)

C11_InvalidColumnRejected ==
    InvalidColumnMove =>
        /\ ~ret.ok
        /\ ret.thrown = (IF IsC THEN "" ELSE "Not a valid column.")
        /\ (IF IsC THEN current_state ELSE currentState) = pre.state
        /\ StackDepth = pre.depth

C11_Witness == InvalidColumnMove /\ ret.column = Cols /\ Current.pieces > 0

(***************************************************************************)
(* C13.  As claimed: after every successful drop score[0] + score[1] is at *)
(* least what it was before the drop.                                      *)
(***************************************************************************)
C13_ScoreSumNeverDecreases ==
    Dropped =>
        Current.score[0] + Current.score[1] >= Before.score[0] + Before.score[1]

(***************************************************************************)
(* C13, amended.  After every successful drop by player p, score[p] is at  *)
(* least what it was and the opponent's score is at most what it was; the  *)
(* sum of the two can decrease.                                            *)
(***************************************************************************)
C13_OwnUpOtherDown ==
    Dropped =>
        /\ Current.score[Mover] >= Before.score[Mover]
        /\ Current.score[other(Mover)] <= Before.score[other(Mover)]

\* A drop after which the sum of the scores is smaller.
C13_Witness ==
    /\ Dropped
    /\ Current.score[0] + Current.score[1] < Before.score[0] + Before.score[1]
    /\ Current.score[Mover] > Before.score[Mover]

(***************************************************************************)
(* C14.  Whenever a winner is recorded, winningCoords() of Connect4Game.js *)
(* returns exactly n coordinates, each a cell owned by the winner, forming *)
(* a contiguous run along one of the four directions.                      *)
(***************************************************************************)
Directions == { <<1, 0>>, <<0, 1>>, <<1, 1>>, <<1, -1>> }

\* The cells are n steps of one direction from some start cell.
IsRun(cells, n) ==
    \E start \in cells : \E d \in Directions :
        cells = { <<start[1] + k * d[1], start[2] + k * d[2]>> : k \in 0..(n - 1) }

JSWinnerRecorded == ~IsC /\ currentState.winner \in Players

C14_WinningCoordsAreTheLine ==
    JSWinnerRecorded =>
        LET coords == winningCoords(currentState)
            cells  == { coords[i] : i \in 1..Len(coords) }
        IN  /\ Len(coords) = Connect
            /\ Cardinality(cells) = Connect
            /\ \A c \in cells :
                  currentState.board[c[1]][c[2]] = currentState.winner
            /\ IsRun(cells, Connect)

\* A recorded winner with a line of two cells on a diagonal.
C14_Witness ==
    /\ JSWinnerRecorded
    /\ LET coords == winningCoords(currentState)
       IN  /\ Len(coords) = 2
           /\ coords[1][1] # coords[2][1]
           /\ coords[1][2] # coords[2][2]

(***************************************************************************)
(* C15.  Whenever a winner is recorded, c4_win_coords returns in (x1, y1)  *)
(* and (x2, y2) the two end cells of one completed line of the winner,     *)
(* with x1 <= x2 and y1 <= y2 (lower-left and upper-right).                *)
(***************************************************************************)
C15_WinCoordsLowerLeftUpperRight ==
    (IsC /\ ~am.active /\ current_state.winner # C4_NONE) =>
        LET c     == c4_win_coords
            lines == Lines
        IN  /\ \E id \in 1..Len(lines) :
                  /\ Holds(current_state.board, current_state.winner, lines[id])
                        = 1..Len(lines[id])
                  /\ { <<c.x1, c.y1>>, <<c.x2, c.y2>> }
                        = { lines[id][1], lines[id][Len(lines[id])] }
            /\ c.x1 <= c.x2
            /\ c.y1 <= c.y2

(***************************************************************************)
(* C12.                                                                    *)
(***************************************************************************)
\* The win place indices stored in a cell-to-line map m.
MapIds(m) ==
    UNION { UNION { { m[x][y][k] : k \in 1..Len(m[x][y]) } : y \in DOMAIN m[x] }
            : x \in DOMAIN m }

GameExists == IF IsC THEN game_in_progress ELSE connect4 # NoGame

\* C12: for every width, height and connect length of the range, the number
\* of win places returned by num_of_win_places / _findWinningPlaces equals
\* the number of line ids the four enumeration passes assign, and every id
\* stored in the cell-to-line map indexes inside both potential arrays.
C12_WinPlacesMatchEnumeration ==
    GameExists =>
        LET count == IF IsC THEN win_places ELSE connect4._winningPlaces
            m     == IF IsC THEN map ELSE Top(connect4).map
            pot   == IF IsC THEN current_state.score_array
                     ELSE Top(connect4).stats
        IN  /\ count = Len(WinLines(Cols, Rows, Connect))
            /\ \A id \in MapIds(m) :
                   /\ id >= 0 /\ id < count
                   /\ \A p \in Players : id \in DOMAIN pot[p]

\* A standard 7 x 6 connect-4 game with its 69 lines, the last of them
\* stored in the map.
C12_Witness ==
    /\ GameExists
    /\ Cols = 7 /\ Rows = 6 /\ Connect = 4
    /\ (IF IsC THEN win_places ELSE connect4._winningPlaces) = 69
    /\ 68 \in MapIds(IF IsC THEN map ELSE Top(connect4).map)

(***************************************************************************)
(* C19.                                                                    *)
(***************************************************************************)
\* The calls of c4.c that need a game.
GameOps == {"make_move", "auto_move", "end_game"} \cup Queries

\* C19: c4_new_game is accepted only when no game is in progress and fails
\* its assertion otherwise; c4_make_move, c4_auto_move, c4_board, the
\* score/winner/tie queries and c4_end_game are accepted only while a game is
\* in progress and fail their assertion otherwise; c4_end_game leaves no
\* game in progress, and every accepted c4_new_game, whatever its dimensions,
\* starts from an empty board at stack depth 0 with one allocated frame.
C19_Lifecycle ==
    [][ /\ ret'.op = "new" =>
              /\ ~game_in_progress /\ ~aborted'
              /\ game_in_progress' /\ depth' = 0 /\ states_allocated' = 1
              /\ state_stack'[0] = NewGameState(size_x', size_y', win_places')
        /\ ret'.op = "new_game" =>
              game_in_progress /\ aborted' /\ ret'.thrown = "Assertion failed"
        /\ ret'.op \in GameOps =>
              IF game_in_progress
              THEN ~aborted'
              ELSE aborted' /\ ret'.thrown = "Assertion failed"
        /\ ret'.op = "end_game" /\ ~aborted' =>
              ~game_in_progress' /\ states_allocated' = 0
      ]_vars

\* A new game on an empty board while frame 1 still holds the piece count of
\* the search of an earlier game, whose memory c4_end_game has freed.
C19_Witness ==
    /\ IsC /\ game_in_progress /\ ~aborted /\ ret.op = "new"
    /\ depth = 0 /\ states_allocated = 1
    /\ current_state = NewGameState(size_x, size_y, win_places)
    /\ state_stack[1].board = <<>>
    /\ state_stack[1].num_of_pieces > 0

(***************************************************************************)
(* C20.                                                                    *)
(***************************************************************************)
\* C20: with a poll function installed with interval I, any two successive
\* calls of the poll function are at least I units of the clock apart.
C20_PollsAtLeastIntervalApart ==
    (poll_function /\ polled.prev >= 0) =>
        polled.last - polled.prev >= poll_interval

(***************************************************************************)
(* C16.  As claimed: autoMove takes the opening shortcut (a piece in the   *)
(* centre column 3, no push, no search) exactly when the game is 7 x 6     *)
(* with connect 4, at most one piece has been played and the bottom cell   *)
(* of the centre column is unoccupied; never for another geometry.         *)
(***************************************************************************)
Standard == Cols = 7 /\ Rows = 6 /\ Connect = 4

ShortcutTaken == AutoMoveOver /\ ~ret.searched

C16_ShortcutIffCentreFree ==
    AutoMoveOver =>
        /\ ~ret.searched <=>
              (Standard /\ Before.pieces <= 1 /\ Before.board[3][0] = Empty)
        /\ ~ret.searched => (ret.ok /\ ret.out_column = 3)

(***************************************************************************)
(* C16, amended.  c4_auto_move takes the shortcut exactly when the game is *)
(* 7 x 6 with connect 4 and either the board is empty or its one piece     *)
(* lies in the bottom cell of the centre column; autoMove of               *)
(* Connect4Game.js takes it exactly when the game is 7 x 6 with connect 4  *)
(* and fewer than two pieces have been played, wherever the one piece      *)
(* lies.  The shortcut puts the player's piece on top of column 3 and      *)
(* leaves the stack depth as it was; it is never taken for another         *)
(* geometry.                                                               *)
(***************************************************************************)
C16_ShortcutByEngine ==
    AutoMoveOver =>
        /\ ~ret.searched <=>
              /\ Standard
              /\ IF IsC
                 THEN \/ Before.pieces = 0
                      \/ Before.pieces = 1 /\ Before.board[3][0] # Empty
                 ELSE Before.pieces <= 1
        /\ ~ret.searched =>
              /\ ret.ok /\ ret.out_column = 3
              /\ ret.out_row = Height(Before.board, 3)
              /\ Current.board =
                    [Before.board EXCEPT ![3][ret.out_row] = ret.player]
              /\ StackDepth = pre.depth

\* c4_auto_move answers a first piece in the centre column by the shortcut:
\* the piece lands on top of it.
C16_Witness ==
    /\ ShortcutTaken /\ IsC /\ Standard
    /\ Before.pieces = 1 /\ Before.board[3][0] # Empty
    /\ ret.out_column = 3 /\ ret.out_row = 1

(***************************************************************************)
(* C17.  Determinism up to the tie-break: the best goodness value of a     *)
(* search and the set of columns whose goodness equals it are functions of *)
(* the state searched from, the player and the level; every run, whatever  *)
(* its random draws, ends with that value and commits a column of that     *)
(* set, never a column of lower goodness.                                  *)
(***************************************************************************)
\* The search of the last automatic move run again from the state before
\* it, without draws: the best value and the columns that attain it.
SearchAgain ==
    IF IsC
    THEN LET r == auto_move_loop(pre.state, ret.player, ret.level, 0,
                                 -(INT_MAX), {})
         IN  [best |-> r.best_worst, columns |-> r.best_columns]
    ELSE LET r == autoMove_loop([connect4 EXCEPT !._stateStack = <<pre.state>>],
                                ret.player, Clamp(ret.level), 1, {-1},
                                -(MAX_VALUE))
         IN  [best |-> r.bestWorst, columns |-> r.bestColumns \ {-1}]

Searched == AutoMoveOver /\ ret.searched /\ ret.thrown = ""

C17_DeterministicUpToTieBreak ==
    Searched =>
        LET again == SearchAgain
        IN  /\ ret.best = again.best
            /\ ret.ok <=> again.columns # {}
            /\ ret.ok => ret.out_column \in again.columns

\* A run of c4_auto_move in which a draw decided: the column committed was
\* tried after another column of the same goodness and replaced it.
C17_Witness ==
    /\ Searched /\ ret.ok /\ IsC
    /\ LET again == SearchAgain
       IN  \E i, j \in 0..(size_x - 1) :
               /\ j < i
               /\ drop_order[i] = ret.out_column
               /\ drop_order[j] \in again.columns

(***************************************************************************)
(* The tie-break of the root loop on its own: the comparison at the end of *)
(* an iteration of the root loop of c4_auto_move and of autoMove, applied  *)
(* to goodness values drawn from a small set in place of the values of     *)
(* evaluate.  The locals of the loop are kept in am for both engines, and  *)
(* the candidate of iteration i is column i.                               *)
(***************************************************************************)
TieCandidates == 4
TieGoodness == {0, 1, 2}

\* The values of rand()%10000.
RandRange == 0..9999

\* The locals on entry to the root loop.
TieLocals ==
    [ NoAutoMove EXCEPT !.active = TRUE, !.pc = "loop", !.level = 1,
          !.best_worst = IF engine = "c4.c" THEN -(INT_MAX) ELSE -(MAX_VALUE) ]

TieInit ==
    /\ engine \in {"c4.c", "Connect4Game.js"}
    /\ ret = NoCall
    /\ pre = NoPre
    /\ auto_moves = 0
    /\ poll_static_init
    /\ NoFacade
    /\ connect4 = NoGame
    /\ size_x = 0 /\ size_y = 0 /\ num_to_connect = 0
    /\ magic_win_number = 0 /\ win_places = 0
    /\ depth = 0
    /\ state_stack = [d \in 0..C4_MAX_LEVEL |-> UnallocatedState]
    /\ states_allocated = 0
    /\ map = <<>>
    /\ drop_order = <<>>
    /\ game_in_progress = FALSE
    /\ move_in_progress = FALSE
    /\ ev = <<>>
    /\ am = TieLocals

TieUnchanged ==
    UNCHANGED <<fvars, engine, size_x, size_y, num_to_connect, win_places, map,
                magic_win_number, drop_order, state_stack, depth,
                states_allocated, game_in_progress, move_in_progress, ev,
                pvars, aborted, connect4, ret, pre, auto_moves>>

\* c4.c: the end of an iteration whose evaluate returned goodness, with r
\* the value of rand()%10000.
c4_tie_step(goodness, r) ==
    /\ engine = "c4.c" /\ am.i < TieCandidates
    /\ am' = RootTail([am EXCEPT !.current_column = am.i], goodness, r)
    /\ TieUnchanged

\* Connect4Game.js: the same, with coin the value of
\* Math.floor(Math.random()*2); num_of_equal counts the candidates equal to
\* the best so far, which the JavaScript does not do itself.
js_tie_step(goodness, coin) ==
    /\ engine = "Connect4Game.js" /\ am.i < TieCandidates
    /\ LET t == autoMove_tail([bestColumn |-> am.best_column,
                               bestWorst |-> am.best_worst],
                              am.i, goodness, coin)
       IN  am' = [am EXCEPT !.current_column = am.i,
                            !.goodness = goodness,
                            !.best_column = t.bestColumn,
                            !.best_worst = t.bestWorst,
                            !.num_of_equal =
                                IF goodness > am.best_worst THEN 1
                                ELSE IF goodness = am.best_worst THEN @ + 1
                                ELSE @,
                            !.i = @ + 1]
    /\ TieUnchanged

TieNext ==
    \/ \E goodness \in TieGoodness, r \in RandValues :
           c4_tie_step(goodness, r)
    \/ \E goodness \in TieGoodness, coin \in Coins :
           js_tie_step(goodness, coin)

TieSpec == TieInit /\ [][TieNext]_vars

(***************************************************************************)
(* C18.                                                                    *)
(***************************************************************************)
\* The number of ways the random decision can come out, and the number of
\* them in which the candidate of this iteration, were its goodness equal
\* to the best so far, replaces the best column.
TieOutcomes ==
    IF engine = "c4.c" THEN Cardinality(RandRange) ELSE Cardinality(Coins)

TieReplacing ==
    IF engine = "c4.c"
    THEN Cardinality({ r \in RandRange :
             RootTail([am EXCEPT !.current_column = am.i],
                      am.best_worst, r).best_column = am.i })
    ELSE Cardinality({ coin \in Coins :
             autoMove_tail([bestColumn |-> am.best_column,
                            bestWorst |-> am.best_worst],
                           am.i, am.best_worst, coin).bestColumn = am.i })

\* A candidate is about to be compared while a best column exists.
TiePending == am.active /\ am.i < TieCandidates /\ am.num_of_equal >= 1

\* C18: in the root loop, a candidate whose goodness equals the best so
\* far replaces the best column with probability 1/k, k being the number of
\* equally good candidates seen so far including this one; the probability
\* is the share of the outcomes of the random decision, and it is 1/k to
\* within the 1/10000 that rand()%10000 can resolve.
C18_TieReplacesWithProbabilityOneOverK ==
    TiePending =>
        LET k == am.num_of_equal + 1
            d == TieReplacing * k - TieOutcomes
        IN  (IF d < 0 THEN -d ELSE d) * 10000 <= TieOutcomes * k

(***************************************************************************)
(* C23.                                                                    *)
(***************************************************************************)
\* c4.c is about to call push_state: an iteration of the root loop of
\* c4_auto_move or of the loop of evaluate starts.
CPushing ==
    /\ IsC
    /\ \/ am.active /\ am.pc = "loop" /\ am.i < size_x
       \/ ev # <<>> /\ ev[Len(ev)].pc = "loop" /\ ev[Len(ev)].i < size_x

\* C23: immediately after push_state / _pushState the new top frame equals
\* the previous top in every field (board, both potential arrays, both
\* scores, winner marker and piece count), also when the target frame was
\* used by an earlier search; the previous frame is as it was.
C23_PushCopiesEveryField ==
    /\ CPushing =>
          LET p == push_state
          IN  /\ p.depth = depth + 1
              /\ CFrame(p.state_stack[p.depth]) = CFrame(state_stack[depth])
              /\ p.state_stack[depth] = state_stack[depth]
    /\ (~IsC /\ connect4._stateStack # <<>>) =>
          LET g == _pushState(connect4)
          IN  /\ Len(g._stateStack) = Len(connect4._stateStack) + 1
              /\ JSFrame(Top(g)) = JSFrame(Top(connect4))
              /\ g._stateStack[Len(connect4._stateStack)] = Top(connect4)

(***************************************************************************)
(* C24.                                                                    *)
(***************************************************************************)
\* c4.c: push_state; drop_piece(player, column); pop_state brings back the
\* depth and the current state.
CRoundTrip(player, column) ==
    LET pd == PushAndDrop(player, column)
    IN  /\ pd.depth - 1 = depth
        /\ pd.state_stack[pd.depth - 1] = current_state

\* Connect4Game.js: the instance after _pushState; _dropPiece(player,
\* column); _popState on instance g.
JSRoundTrip(g, player, column) ==
    LET g1 == _pushState(g)
        d  == _dropPiece(Top(g1), player, column)
    IN  _popState(SetTop(g1, d.st))

\* The instance and those one hypothetical drop above it, as during a
\* search.
JSSearchStacks ==
    {connect4} \cup
    { LET g1 == _pushState(connect4)
      IN  SetTop(g1, _dropPiece(Top(g1), pc[1], pc[2]).st) :
          pc \in Players \X (0..(connect4._cols - 1)) }

\* C24: for every reachable state, player and column, push; drop(player,
\* column); pop leaves the current state identical in every field to the
\* state before the push, whether the drop succeeds or the column is full,
\* at every stack depth of a search.
C24_PushDropPopRoundTrip ==
    /\ (IsC /\ game_in_progress /\ ~aborted) =>
          \A player \in Players, column \in 0..(size_x - 1) :
              CRoundTrip(player, column)
    /\ (~IsC /\ connect4._stateStack # <<>>) =>
          \A g \in JSSearchStacks :
              \A player \in Players, column \in 0..(connect4._cols - 1) :
                  JSRoundTrip(g, player, column) = g

\* A search of c4.c is one frame or more above the committed state, and
\* there one column is full and another is not.
C24_Witness ==
    /\ IsC /\ am.active /\ depth >= 1
    /\ \E column \in 0..(size_x - 1) :
           PushAndDrop(am.player, column).row < 0
    /\ \E column \in 0..(size_x - 1) :
           PushAndDrop(am.player, column).row >= 0

(***************************************************************************)
(* C25.                                                                    *)
(***************************************************************************)
\* C25: during an automatic move at level 1..C4_MAX_LEVEL the number of
\* hypothetical frames on the state stack (frames above the committed one)
\* never exceeds level: evaluate is at its base case when the stack depth
\* is level and does not push there, and the frame index stays within
\* C4_MAX_LEVEL.
C25_HypotheticalFramesWithinLevel ==
    /\ (IsC /\ am.active) =>
          /\ depth <= am.level /\ depth <= C4_MAX_LEVEL
          /\ (ev # <<>> /\ ev[Len(ev)].pc # "entry") => depth < am.level
    /\ (~IsC /\ AutoMoveOver /\ ret.level >= 1 /\ ret.level <= C4_MAX_LEVEL) =>
          /\ ret.peak - pre.depth <= ret.level
          /\ ret.peak - pre.depth <= C4_MAX_LEVEL

(***************************************************************************)
(* C26.                                                                    *)
(***************************************************************************)
\* The goodness evaluate / _evaluate gives to a win of the opponent found
\* when the stack depth (c4.c: depth, Connect4Game.js: the local depth) is
\* d.
WinValue(d) == IF IsC THEN INT_MAX - d ELSE FloatSub(MAX_VALUE, d)

\* The positional goodness values of the frames in use.
PositionalValues ==
    { f.score[p] - f.score[1 - p] : f \in FramesInUse, p \in Players }

\* C26: within a search a win found at a smaller stack depth has a value
\* strictly greater than a win found at a larger stack depth, and every
\* win value is strictly greater than every positional goodness value
\* (score difference) on the board.
C26_WinValuesOrdered ==
    StackDepth >= 1 =>
        /\ \A d1, d2 \in 1..C4_MAX_LEVEL :
               d1 < d2 => WinValue(d1) > WinValue(d2)
        /\ \A d \in 1..C4_MAX_LEVEL, v \in PositionalValues :
               WinValue(d) > v

(***************************************************************************)
(* C27.                                                                    *)
(***************************************************************************)
\* C27: for every width (odd and even) the drop order built at game setup
\* starts at column (W-1)/2 and holds every column index 0..W-1 exactly
\* once, each entry being an integer that is a valid board column.  (The
\* entries of _dropOrder are kept doubled, so that a half is an odd entry.)
C27_DropOrderIsPermutation ==
    /\ (IsC /\ game_in_progress) =>
          /\ DOMAIN drop_order = 0..(size_x - 1)
          /\ drop_order[0] = (size_x - 1) \div 2
          /\ { drop_order[i] : i \in 0..(size_x - 1) } = 0..(size_x - 1)
    /\ (~IsC /\ connect4._stateStack # <<>>) =>
          /\ Len(connect4._dropOrder) = connect4._cols
          /\ connect4._dropOrder[1] = connect4._cols - 1
          /\ \A i \in 1..connect4._cols :
                 IsArrayIndex(connect4._dropOrder[i], connect4._cols)
          /\ { connect4._dropOrder[i] \div 2 : i \in 1..connect4._cols } =
                 0..(connect4._cols - 1)

(***************************************************************************)
(* C28.  Searches deep enough for the cutoff of evaluate to act: c4.c on a *)
(* board of 3 by 3 with 3 to connect, a few pieces dropped by c4_make_move *)
(* and then one c4_auto_move.                                              *)
(***************************************************************************)
PruneCols    == 3
PruneRows    == 3
PruneConnect == 3
PrunePieces  == 4   \* c4_make_move is called while fewer pieces are on board
PruneLevels  == 2..3
PruneLevel   == 4   \* the searches compared go up to this level

PruneInit ==
    /\ ret = NoCall
    /\ pre = NoPre
    /\ auto_moves = 0
    /\ poll_static_init
    /\ NoFacade
    /\ engine = "c4.c"
    /\ c4_new_game(PruneCols, PruneRows, PruneConnect)
    /\ connect4 = NoGame

PruneNext ==
    \/ \E p \in Players, c \in 0..(size_x - 1) :
           current_state.num_of_pieces < PrunePieces /\ c4_make_move(p, c)
    \/ \E p \in Players, l \in PruneLevels : c4_auto_move(p, l)
    \/ auto_move_iter
    \/ eval_entry
    \/ eval_iter
    \/ eval_exit
    \/ auto_move_finish

PruneSpec == PruneInit /\ [][PruneNext]_vars


\* C28: alpha-beta pruning does not change the decision of c4_auto_move.
\* After a search, best_worst and the committed column are those of the
\* same depth-limited search without cutoff; and from the position the
\* search started in, at every level up to PruneLevel, the best goodness
\* of the root loop and the set of columns it can commit are the same with
\* and without the cutoff.
C28_PruningKeepsDecision ==
    (Searched /\ IsC) =>
        /\ LET plain == auto_move_unpruned(pre.state, ret.player, ret.level,
                                           0, -(INT_MAX), {})
           IN  /\ ret.best = plain.best_worst
               /\ ret.ok <=> plain.best_columns # {}
               /\ ret.ok => ret.out_column \in plain.best_columns
        /\ \A level \in 1..PruneLevel :
               auto_move_loop(pre.state, ret.player, level, 0,
                              -(INT_MAX), {}) =
               auto_move_unpruned(pre.state, ret.player, level, 0,
                                  -(INT_MAX), {})

\* The state after the root loop's drop in drop_order[i].
RootDrop(i) == drop_piece(pre.state, ret.player, drop_order[i])

\* A search of c4.c in which the cutoff acted: a column tried after the
\* best goodness was found (so that beta was -best_worst = -ret.best) got,
\* by a cutoff, a goodness that is not its goodness without cutoff.
C28_Witness ==
    /\ Searched /\ IsC /\ ret.ok
    /\ \E i, j \in 0..(size_x - 1) :
           /\ j < i
           /\ RootDrop(j).row >= 0 /\ RootDrop(i).row >= 0
           /\ evaluate_unpruned(RootDrop(j).st, 1, ret.player, ret.level)
                  = ret.best
           /\ evaluate(RootDrop(i).st, 1, ret.player, ret.level,
                       -(INT_MAX), -(ret.best))
                  # evaluate_unpruned(RootDrop(i).st, 1, ret.player,
                                      ret.level)

(***************************************************************************)
(* C29.                                                                    *)
(***************************************************************************)
\* C29: wherever a collaborator can call c4_board, c4_score_of_player,
\* c4_is_winner or c4_is_tie, the current state is the committed position
\* at stack depth 0: between the calls of the engine, and inside the poll
\* function called during a search (which is allowed to make these calls).
C29_QueriesSeeCommittedState ==
    /\ (IsC /\ game_in_progress /\ ~am.active) =>
          depth = 0 /\ current_state = state_stack[0]
    /\ (IsC /\ polled.last >= 0) => polled.depth = 0

(***************************************************************************)
(* C30.                                                                    *)
(***************************************************************************)
\* A step in which the poll function is called.
PollCalled == polled' # polled /\ polled'.last >= 0

\* A step in which a function of the engine is called from inside the poll
\* function (c4_auto_move is executing before and after, and a call is
\* recorded), and one in which it is called from outside.
CalledFromPoll == am.active /\ am'.active /\ ret' # ret
CalledFromOutside == ~am.active /\ ret' # ret

\* C30: move_in_progress is TRUE at every call of the poll function and
\* FALSE whenever c4_auto_move is not executing, whichever way it returned;
\* so c4_make_move, c4_auto_move, c4_end_game or c4_reset called from
\* inside the poll function always fails its assertion, and a call from
\* outside never fails the assertion on move_in_progress.
C30_MoveInProgressGuardsReentry ==
    [][ /\ PollCalled => move_in_progress
        /\ ~am'.active => ~move_in_progress'
        /\ CalledFromPoll =>
              aborted' /\ ret'.thrown = "Assertion failed"
        /\ CalledFromOutside =>
              (aborted' => ~game_in_progress)
      ]_vars

\* The poll function called a forbidden function during a search and the
\* assertion ended the program.
C30_Witness ==
    /\ IsC /\ am.active /\ aborted
    /\ ret.op \in {"make_move", "end_game", "reset"}
    /\ ret.thrown = "Assertion failed"

(***************************************************************************)
(* C21.                                                                    *)
(***************************************************************************)
\* The messages of queue q that are a move request or the answer to one.
MoveMessages(q) ==
    Cardinality({ i \in 1..Len(q) : q[i].action \in {"makeMove", "autoMove"} })

\* The move requests posted whose answer the facade has not handled yet.
Outstanding == MoveMessages(to_worker) + MoveMessages(to_facade)

\* A step of makeMove or autoMove of the facade: nothing is taken from a
\* queue.
FacadeCall ==
    to_facade' = to_facade /\ Len(to_worker') >= Len(to_worker)

\* C21: makeMove and autoMove of the facade throw when moveInProgress or
\* gameOver is true, and a call that throws publishes nothing, posts nothing
\* to the worker and changes no field of the facade; at most one move
\* request is outstanding at any time.
C21_FacadeRejectsWhileBusyOrOver ==
    [][ /\ FacadeCall =>
             /\ facade.moveInProgress \/ facade.state.gameOver
                    => api'.thrown # ""
             /\ api'.thrown # "" => /\ published' = published
                                    /\ to_worker' = to_worker
                                    /\ facade' = facade
        /\ Outstanding' <= 1
      ]_vars

\* A call was rejected while the request of a move was outstanding.
C21_Witness ==
    /\ api.thrown = "There is currently a move in progress"
    /\ facade.moveInProgress
    /\ Outstanding = 1

(***************************************************************************)
(* C22.                                                                    *)
(***************************************************************************)
\* C22: every move request accepted by the facade is answered by exactly one
\* moveend: while moveInProgress is true the request or its answer is on
\* its way, and the moveend events never outnumber the movestart events nor
\* fall behind by more than the move in progress.
C22_AcceptedMoveIsAnswered ==
    /\ facade.moveInProgress => Outstanding = 1
    /\ published.movestart =
          published.moveend + (IF facade.moveInProgress THEN 1 ELSE 0)

(***************************************************************************)
(* C31.                                                                    *)
(***************************************************************************)
\* Line id passes through cell <<x, y>>.
Through(id, x, y) == \E k \in 1..Len(Lines[id]) : Lines[id][k] = <<x, y>>

\* C31: a successful drop changes exactly one cell of the board, the lowest
\* empty cell of its column, to the marker of the player, adds exactly 1 to
\* the piece count, returns the row of that cell (the number of pieces the
\* column held), and leaves every other cell and, for both players, the
\* potential of every line that does not pass through that cell unchanged.
C31_DropChangesOneCell ==
    Dropped =>
        /\ ret.out_column \in 0..(Cols - 1)
        /\ ret.out_row = Height(Before.board, ret.out_column)
        /\ Before.board[ret.out_column][ret.out_row] = Empty
        /\ Current.board[ret.out_column][ret.out_row] = ret.player
        /\ \A x \in 0..(Cols - 1) : \A y \in 0..(Rows - 1) :
              <<x, y>> # <<ret.out_column, ret.out_row>>
                  => Current.board[x][y] = Before.board[x][y]
        /\ Current.pieces = Before.pieces + 1
        /\ \A id \in 1..Len(Lines) :
              ~Through(id, ret.out_column, ret.out_row)
                  => \A p \in Players :
                        Current.potential[p][id - 1] = Before.potential[p][id - 1]

\* A piece landed on another one while a line that misses its cell held a
\* piece.
C31_Witness ==
    /\ Dropped /\ ret.out_row = 1
    /\ \E id \in 1..Len(Lines) :
          /\ ~Through(id, ret.out_column, ret.out_row)
          /\ Before.potential[0][id - 1] # 1

(***************************************************************************)
(* C32.                                                                    *)
(***************************************************************************)
\* The cells whose list in the cell-to-line map m holds id.
CellsOf(m, id) ==
    { c \in (0..(Cols - 1)) \X (0..(Rows - 1)) :
          \E k \in 1..Len(m[c[1]][c[2]]) : m[c[1]][c[2]][k] = id }

\* The cells are n steps of direction d from some start cell.
RunAlong(cells, d, n) ==
    \E start \in cells :
        cells = { <<start[1] + k * d[1], start[2] + k * d[2]>> : k \in 0..(n - 1) }

\* The direction of the pass that assigns id: the bounds of the four loops.
PassOf(id) ==
    IF id < Rows * Span(Cols, Connect) THEN <<1, 0>>
    ELSE IF id < Rows * Span(Cols, Connect) + Cols * Span(Rows, Connect)
    THEN <<0, 1>>
    ELSE IF id < Rows * Span(Cols, Connect) + Cols * Span(Rows, Connect)
                   + Span(Rows, Connect) * Span(Cols, Connect)
    THEN <<1, 1>>
    ELSE <<-1, 1>>

\* C32: after a new game every line id below the number of lines is listed
\* by exactly n cells, which form a contiguous run inside the board along
\* one of the four directions; no cell lists an id twice; and the ids are
\* assigned contiguously, first the horizontal lines, then the vertical,
\* then the forward diagonal, then the backward diagonal ones.
C32_MapListsEachLineOnItsCells ==
    GameExists =>
        LET count == IF IsC THEN win_places ELSE connect4._winningPlaces
            m     == IF IsC THEN map ELSE Top(connect4).map
        IN  /\ MapIds(m) = 0..(count - 1)
            /\ \A id \in 0..(count - 1) :
                  /\ Cardinality(CellsOf(m, id)) = Connect
                  /\ RunAlong(CellsOf(m, id), PassOf(id), Connect)
            /\ \A x \in 0..(Cols - 1) : \A y \in 0..(Rows - 1) :
                  \A k1, k2 \in 1..Len(m[x][y]) :
                      m[x][y][k1] = m[x][y][k2] => k1 = k2

\* The standard game: the last line is a backward diagonal, and the centre
\* cell of the bottom row lists lines of all four passes.
C32_Witness ==
    /\ GameExists
    /\ Cols = 7 /\ Rows = 6 /\ Connect = 4
    /\ CellsOf(IF IsC THEN map ELSE Top(connect4).map, 68)
          = { <<3, 2>>, <<2, 3>>, <<1, 4>>, <<0, 5>> }
    /\ { PassOf((IF IsC THEN map ELSE Top(connect4).map)[3][0][k]) : k \in 1..7 }
          = { <<1, 0>>, <<0, 1>>, <<1, 1>>, <<-1, 1>> }



(***************************************************************************)
(* C33.                                                                    *)
(***************************************************************************)
\* Player p owns n contiguous cells of the board along one direction.
OwnsRun(board, p) ==
    \E x \in 0..(Cols - 1) : \E y \in 0..(Rows - 1) : \E d \in Directions :
        \A k \in 0..(Connect - 1) :
            /\ x + k * d[1] \in 0..(Cols - 1)
            /\ y + k * d[2] \in 0..(Rows - 1)
            /\ board[x + k * d[1]][y + k * d[2]] = p

\* C33: the recorded winner agrees with the board.  In every frame in use
\* the winner is none exactly if neither player owns n contiguous collinear
\* cells, and a recorded winner owns such a run; the winner is the player
\* whose drop first completed a run: a call records a winner only by a drop
\* of that player that completes a line, and never changes a recorded one.
C33_WinnerAgreesWithBoard ==
    /\ \A f \in FramesInUse :
          /\ f.winner = Empty <=> \A p \in Players : ~OwnsRun(f.board, p)
          /\ f.winner \in Players => OwnsRun(f.board, f.winner)
    /\ Returned =>
          /\ Before.winner # Empty => Current.winner = Before.winner
          /\ Before.winner = Empty /\ Current.winner # Empty
                => /\ ret.ok
                   /\ Current.winner = Mover
                   /\ ~OwnsRun(Before.board, Mover)

\* The loser completed a run of their own after the game was won.
C33_Witness ==
    /\ Dropped
    /\ Before.winner \in Players
    /\ Current.winner = Before.winner
    /\ Mover # Before.winner
    /\ OwnsRun(Current.board, Mover)
    /\ ~OwnsRun(Before.board, Mover)

(***************************************************************************)
(* C34.  The end of a game on boards with three rows: c4.c on a board of   *)
(* two columns, Connect4Game.js on a board of three (its drop order needs  *)
(* an odd width), with searches of level 2 and 3.                          *)
(***************************************************************************)
EndCols    == 2   \* c4.c: width of the board
EndJSCols  == 3   \* Connect4Game.js: width of the board
EndRows    == 3
EndConnect == 3
EndLevels  == 2..3

EndgameInit ==
    /\ ret = NoCall
    /\ pre = NoPre
    /\ auto_moves = 0
    /\ poll_static_init
    /\ NoFacade
    /\ \/ /\ engine = "c4.c"
          /\ c4_new_game(EndCols, EndRows, EndConnect)
          /\ connect4 = NoGame
       \/ /\ engine = "Connect4Game.js"
          /\ c4_static_init
          /\ connect4 = Connect4Game(EndJSCols, EndRows, EndConnect)

EndgameNext ==
    \/ \E p \in Players, c \in 0..(size_x - 1) : c4_make_move(p, c)
    \/ \E p \in Players, l \in EndLevels : c4_auto_move(p, l)
    \/ auto_move_iter
    \/ eval_entry
    \/ eval_iter
    \/ eval_exit
    \/ auto_move_finish
    \/ \E p \in Players, c \in 0..(connect4._cols - 1) : makeMove(p, c)
    \/ \E p \in Players, l \in EndLevels : autoMove(p, l)

EndgameSpec == EndgameInit /\ [][EndgameNext]_vars

\* The board after p dropped a piece in the non-full column c.
WithDrop(board, p, c) == [board EXCEPT ![c][Height(board, c)] = p]

\* The non-full columns in which a drop of p completes a run of p.
WinsAt(board, p) ==
    { c \in 0..(Cols - 1) :
        ~ColumnFull(board, c) /\ OwnsRun(WithDrop(board, p, c), p) }

\* The non-full columns in which a drop of p leaves the opponent without an
\* immediately winning reply.
SafeColumns(board, p) ==
    { c \in 0..(Cols - 1) :
        /\ ~ColumnFull(board, c)
        /\ WinsAt(WithDrop(board, p, c), other(p)) = {} }

\* An automatic move of level 2 or more from a state without winner in
\* which player cannot win at once but can keep the opponent from it.
LossAvoidable ==
    /\ AutoMoveOver /\ ret.level >= 2
    /\ Before.winner = Empty
    /\ WinsAt(Before.board, ret.player) = {}
    /\ SafeColumns(Before.board, ret.player) # {}

\* C34: with level 2 or more the automatic move avoids an immediate loss
\* when it can: from a state without winner in which player has no winning
\* column, if some non-full column leaves the opponent without a winning
\* reply, the column committed is such a column.
C34_AvoidsImmediateLoss ==
    LossAvoidable =>
        /\ ret.ok
        /\ ret.out_column \in SafeColumns(Before.board, ret.player)

(***************************************************************************)
(* C35.                                                                    *)
(***************************************************************************)
\* C35: the facade publishes gameend exactly once per game: the handler that
\* publishes it is the one of the answer to the move that ended the game,
\* after its moveend; no gameend is published while the game is not over,
\* and no later message of the worker, debug messages included, publishes
\* a second one.
C35_GameEndPublishedOnce ==
    [][ /\ published'.gameend = (IF facade'.state.gameOver THEN 1 ELSE 0)
        /\ published'.gameend # published.gameend
              => /\ ~facade.state.gameOver
                 /\ published'.moveend = published.moveend + 1
                 /\ published'.last = <<"moveend", "gameend">>
      ]_vars

\* The game ended with a winner after a move into a full column, and a
\* later request was refused.
C35_Witness ==
    /\ published.gameend = 1
    /\ facade.state.winner \in Players
    /\ published.moveend >= 2
    /\ published.debug >= 2
    /\ api.thrown = "The game is over."
    /\ to_worker = <<>> /\ to_facade = <<>>

(***************************************************************************)
(* C36.                                                                    *)
(***************************************************************************)
\* C36: once the page has unsubscribed a handler it had subscribed to an
\* event, no later publication of the event invokes that handler, while
\* the handlers subscribed to the event and not unsubscribed are invoked.
C36_UnsubscribedHandlerNotInvoked ==
    [][ published' # published =>
          /\ \A i \in 1..Len(published'.invoked) :
                published'.invoked[i] \notin api.unsubscribed
          /\ \A k \in 1..Len(published'.last) :
                \A i \in 1..Len(_publish(facade, published'.last[k])) :
                    _publish(facade, published'.last[k])[i] \notin api.unsubscribed
                        => \E j \in 1..Len(published'.invoked) :
                               published'.invoked[j] =
                                   _publish(facade, published'.last[k])[i]
      ]_vars

(***************************************************************************)
(* C37.                                                                    *)
(***************************************************************************)
\* C37: in Connect4Game.js, after every makeMove or autoMove, gameOver of
\* the current state is true exactly if a winner is recorded or the number
\* of pieces has reached cols * rows, tie is true exactly if the board is
\* full and no winner is recorded, and winningCoords is non-empty only if
\* a winner is recorded.
C37_FlagsFollowWinnerAndCount ==
    (~IsC /\ Returned) =>
        /\ currentState.gameOver <=>
              \/ currentState.winner \in Players
              \/ currentState.numberOfPieces >= connect4._cols * connect4._rows
        /\ currentState.tie <=>
              /\ BoardFull(currentState.board)
              /\ currentState.winner = JS_none
        /\ currentState.winningCoords # <<>> => currentState.winner \in Players

\* The last piece filled the board and won the game: the game is over with
\* its winning coordinates and is no tie.
C37_Witness ==
    /\ ~IsC /\ Dropped
    /\ BoardFull(currentState.board)
    /\ currentState.numberOfPieces >= 2
    /\ Before.winner = JS_none
    /\ currentState.gameOver /\ ~currentState.tie
    /\ Len(currentState.winningCoords) = connect4._connect

(***************************************************************************)
(* C38.  c4.c from the start of the program on boards of every shape up to *)
(* AllocCols x AllocRows: games are created, searched once and ended.      *)
(***************************************************************************)
AllocCols    == 3   \* c4_new_game: widths 1..AllocCols
AllocRows    == 3   \* heights 1..AllocRows
AllocConnect == 3   \* connect lengths 1..AllocConnect

AllocGeometries == (1..AllocCols) \X (1..AllocRows) \X (1..AllocConnect)

AllocInit == NoGameYet /\ engine = "c4.c"

AllocNext ==
    \/ \E g \in AllocGeometries : c4_new_game_call(g[1], g[2], g[3])
    \/ c4_end_game
    \/ c4_reset
    \/ \E p \in Players, l \in Levels : c4_auto_move(p, l)
    \/ auto_move_iter
    \/ eval_entry
    \/ eval_iter
    \/ eval_exit
    \/ auto_move_finish

AllocSpec == AllocInit /\ [][AllocNext]_vars

\* C38: in c4.c, while a game is in progress, the list map[x][y] of every
\* cell with its terminating -1 fits the 4 * num_to_connect + 1 entries
\* allocated for it, and the frame state_stack[depth] in use is one of the
\* states_allocated allocated frames.
C38_MapAndFramesWithinAllocation ==
    (IsC /\ game_in_progress) =>
        /\ \A x \in 0..(size_x - 1), y \in 0..(size_y - 1) :
               Len(map[x][y]) + 1 <= 4 * num_to_connect + 1
        /\ depth < states_allocated

\* A search two plies deep on a board with a cell on 4 * num_to_connect
\* lines of two cells: the list of that cell is full and the top frame is
\* the last allocated one.
C38_Witness ==
    /\ IsC /\ game_in_progress /\ am.active
    /\ num_to_connect = 2
    /\ \E x \in 0..(size_x - 1), y \in 0..(size_y - 1) :
           Len(map[x][y]) = 4 * num_to_connect
    /\ depth = 2
    /\ states_allocated = depth + 1

====
